---- MODULE Spec2Model ----
(***************************************************************************)
(* A model of the gonk music player: the ring buffer between the decode    *)
(* thread and the audio callback (gonk-player/src/rb.rs) and the queue of  *)
(* the two Player implementations (gonk-player/src/lib.rs and              *)
(* rodio/src/lib.rs).                                                      *)
(***************************************************************************)
EXTENDS Integers, Sequences, FiniteSets, TLC

VARIABLES
    \* ---- Rb<T> (gonk-player/src/rb.rs) ----
    len,        \* Rb.len: the argument of Rb::new plus one
    buf,        \* Rb.buf: slot -> value
    write,      \* Rb.write (AtomicUsize)
    read,       \* Rb.read (AtomicUsize)
    is_locked,  \* the bool inside Rb.is_locked
    mutex,      \* who holds the Mutex of Rb.is_locked
    ppc,        \* the producer's position in push_back
    pw,         \* push_back's local `write`
    pr,         \* push_back's local `read`
    pval,       \* push_back's argument `value`
    cpc,        \* the consumer's position in pop_front
    cw,         \* pop_front's local `write`
    cr,         \* pop_front's local `read`
    item,       \* pop_front's local `item`
    passed,     \* the values passed to push_back so far, in call order
    pushes,     \* the number of completed push_back calls
    pops,       \* the number of pop_front calls that advanced `read`
    popped,     \* the values pop_front has returned as Some, in order
    lastPop,    \* what the last completed pop_front returned
    clobbered,  \* a slot was written while it still held an unread value
    \* ---- which Player the queue is the queue of ----
    crate,      \* "gonk_player" (gonk-player/src/lib.rs) or "rodio" (rodio/src/lib.rs)
    \* ---- Player of gonk-player/src/lib.rs ----
    songs,      \* Player.songs: Index<Song>, [data, index]
    state,      \* Player.state
    symphonia,  \* Player.symphonia: the path the decoder was opened on, or None
    elapsed,    \* Player.elapsed
    position,   \* the position of the decoder in Player.symphonia
    volume,     \* Player.volume: f32, [m, e] for m * 2^e
    \* ---- Player of rodio/src/lib.rs ----
    rodio_songs,   \* Player.songs: Vec<Song>
    current_song,  \* Player.current_song
    sink,          \* Player.sink: [paused, source, elapsed]
    total_duration, \* Player.total_duration, in seconds
    rodio_volume,  \* Player.volume: u16
    \* ---- SampleRateConverter (gonk-player/src/sample_rate.rs) ----
    converter,  \* the SampleRateConverter: its fields
    fed,        \* the input handed to new, or to the last update
    returned,   \* the samples next() has returned since new or the last update
    ended,      \* a next() call has returned None since new or the last update
    updated,    \* update has been called
    \* ---- Database (gonk-database/src/sqlite.rs) ----
    song_table, \* the rows of the table song, in rowid order: [path, parent]
    busy,       \* Database.busy
    workers,    \* the threads add_dirs has spawned: [given, dirs, status]
    declared,   \* the roots the last sync_database was handed, on a database at rest
    scanned,    \* the roots scanned and inserted since the last deletion
    undeclared, \* the roots threads were given that the latest sync_database,
                \* running beside them, was not handed; none after an add_dirs
    \* ---- Song (gonk-test-database/src/main.rs) ----
    args,       \* the arguments of Song::new: [name, album, artist, path, number, disc]
    made,       \* the Song that Song::new returned, once it has
    bytes,      \* what into_bytes returned for it, once it has
    read_back,  \* the Song that Song::from made of these bytes, once it has
    \* ---- RawPlaylist (gonk-database/src/playlist.rs) ----
    playlist,   \* the RawPlaylist: [name, songs]
    file,       \* the bytes save() wrote, once it has
    opened,     \* the RawPlaylist that RawPlaylist::from made of the file, once it has
    \* ---- Playlist (gonk/src/playlist.rs) ----
    ui,         \* the Playlist: [mode, lists, song_buffer, search_query, changed, delete, yes]
    disk,       \* the playlist files: name -> songs
    queued,     \* the songs on_enter has added to the queue it is handed
    emptied,    \* the name of the playlist whose last song the latest call removed
    \* ---- Pausable (gonk-player/src/source/pausable.rs) ----
    pausable,   \* the Pausable, once pausable() has made it
    output,     \* the samples its next() has returned so far
    \* ---- the gain of the gonk-player Player (gonk-player/src/lib.rs) ----
    gain,       \* the gain field, in hundredths
    track_gain, \* the gain the latest play_song / restore_song was handed
    applied,    \* what update() has handed fill_buffer since that load, if it has
    \* ---- Search (gonk/src/app/search.rs) ----
    search,     \* the Search, once Search::new has made it:
                \* [query, prev_query, mode, results, cache]
    \* ---- the loads the queue operations issue ----
    loaded,     \* the path last passed to play_song / restore_song / play_selected
    calls,      \* how often the last operation issued such a load
    \* ---- the process ----
    panicked    \* a panic has ended the process

rbVars == <<len, buf, write, read, is_locked, mutex, ppc, pw, pr, pval,
            cpc, cw, cr, item, passed, pushes, pops, popped, lastPop, clobbered>>

gonkVars == <<songs, state, symphonia, elapsed, position>>

rodioVars == <<rodio_songs, current_song, sink, total_duration>>

opVars == <<loaded, calls>>

volumeVars == <<volume, rodio_volume>>

srcVars == <<converter, fed, returned, ended, updated>>

dbVars == <<song_table, busy, workers, declared, scanned, undeclared>>

recVars == <<args, made, bytes, read_back>>

plVars == <<playlist, file, opened>>

\* The variables of the parts modelled after the player.
uiVars == <<ui, disk, queued, emptied>>

pauseVars == <<pausable, output>>

gainVars == <<gain, track_gain, applied>>

searchVars == <<search>>

moreVars == <<pauseVars, gainVars, searchVars>>

laterVars == <<srcVars, dbVars, recVars, plVars, uiVars, moreVars>>

vars == <<rbVars, crate, gonkVars, rodioVars, opVars, volumeVars, laterVars, panicked>>

\* The variables the ring buffer's steps leave alone.
notRb == <<crate, gonkVars, rodioVars, opVars, volumeVars, laterVars, panicked>>

\* The variables the queue operations leave alone.
notQueue == <<rbVars, volumeVars, laterVars>>

\* The variables of the player as a whole.
playerVars == <<rbVars, crate, gonkVars, rodioVars, opVars, volumeVars>>

-----------------------------------------------------------------------------
\* Bounds of the model.
MaxCap == 2     \* Rb::new is called with 0..MaxCap
MaxPush == 4    \* push_back is called at most MaxPush times
MaxQueue == 3   \* the queue holds at most MaxQueue songs
MaxAdd == 2     \* add is called with at most MaxAdd songs
MaxElapsed == 1 \* the elapsed time is counted up to MaxElapsed, in steps of 5 s
MaxStartVolume == 100  \* Player::new is called with a volume of 0..MaxStartVolume
MaxRate == 3    \* the converter's rates are 1..MaxRate
MaxSamples == 8 \* the converter is fed at most MaxSamples samples
MaxScans == 2   \* add_dirs and sync_database are called at most MaxScans times
MaxRoots == 2   \* with at most MaxRoots directories each
MaxSongs == 2   \* a playlist saved holds at most MaxSongs songs
MaxListSongs == 2  \* a playlist of the view holds at most MaxListSongs songs
MaxQueued == 1  \* on_enter adds at most MaxQueued songs to the queue

\* The songs of the library, each named by its path.
Songs == {"A", "B", "C"}

\* Option<T>: None, or Some(x) holding x
None == <<>>
Some(x) == <<x>>
Get(o) == o[1]
Default == 0    \* T::default() of the samples

\* The song at position cur of list, if cur is set and a position of it.
SongAt(list, cur) ==
    IF cur # None /\ Get(cur) < Len(list) THEN Some(list[Get(cur) + 1]) ELSE None

\* Time is counted in steps of five seconds.
Seconds(e) == 5 * e
Steps(secs) == secs \div 5

\* The length of each song's stream, in seconds.
SongSeconds(song) ==
    IF song = "A" THEN 5 ELSE IF song = "B" THEN 15 ELSE 10

-----------------------------------------------------------------------------
\* Rb::new(len)
RbNew(cap) ==
    /\ len = cap + 1
    /\ buf = [i \in 0..cap |-> Default]
    /\ write = 0
    /\ read = 0
    /\ is_locked = FALSE
    /\ mutex = "free"

RbInit ==
    /\ \E cap \in 0..MaxCap : RbNew(cap)
    /\ ppc = "idle" /\ pw = 0 /\ pr = 0 /\ pval = Default
    /\ cpc = "idle" /\ cw = 0 /\ cr = 0 /\ item = Default
    /\ passed = <<>> /\ pushes = 0 /\ pops = 0 /\ popped = <<>> /\ lastPop = None
    /\ clobbered = FALSE

\* The full test without the wrap of the write index.
IsFullNoWrap(w, r) == w + 1 = r

\* The full test of push_back: (write + 1) % self.len == read
IsFull(w, r) == (w + 1) % len = r

\* The empty test of pop_front: read == write
IsEmpty(w, r) == r = w

\* The slots that hold a value not yet taken by the consumer.
Unread == {(read + k) % len : k \in 0..(((write - read) + len) % len) - 1}

\* ---- the producer: push_back(value) ----
\* The decode thread calls push_back with the next sample.
PushCall ==
    /\ ppc = "idle"
    /\ Len(passed) < MaxPush
    /\ pval' = Len(passed) + 1
    /\ passed' = Append(passed, Len(passed) + 1)
    /\ ppc' = "load_write"
    /\ UNCHANGED <<len, buf, write, read, is_locked, mutex, pw, pr,
                   cpc, cw, cr, item, pushes, pops, popped, lastPop, clobbered>>
    /\ UNCHANGED notRb

\* let write = self.write.load(SeqCst)
PushLoadWrite ==
    /\ ppc = "load_write"
    /\ pw' = write
    /\ ppc' = "load_read"
    /\ UNCHANGED <<len, buf, write, read, is_locked, mutex, pr, pval,
                   cpc, cw, cr, item, passed, pushes, pops, popped, lastPop, clobbered>>
    /\ UNCHANGED notRb

\* let read = self.read.load(SeqCst); the full test and its assert
PushLoadRead ==
    /\ ppc = "load_read"
    /\ pr' = read
    /\ \/ /\ IsFull(pw, read)
          /\ read = pw
          /\ ppc' = "panic"          \* assert!(read != write) fails
       \/ /\ IsFull(pw, read)
          /\ read # pw
          /\ ppc' = "lock"
       \/ /\ ~IsFull(pw, read)
          /\ ppc' = "write_buf"
    /\ UNCHANGED <<len, buf, write, read, is_locked, mutex, pw, pval,
                   cpc, cw, cr, item, passed, pushes, pops, popped, lastPop, clobbered>>
    /\ UNCHANGED notRb

\* let mut is_locked = self.is_locked.lock().unwrap()
PushLock ==
    /\ ppc = "lock"
    /\ mutex = "free"
    /\ mutex' = "producer"
    /\ ppc' = "set_locked"
    /\ UNCHANGED <<len, buf, write, read, is_locked, pw, pr, pval,
                   cpc, cw, cr, item, passed, pushes, pops, popped, lastPop, clobbered>>
    /\ UNCHANGED notRb

\* *is_locked = true
PushSetLocked ==
    /\ ppc = "set_locked"
    /\ is_locked' = TRUE
    /\ ppc' = "wait"
    /\ UNCHANGED <<len, buf, write, read, mutex, pw, pr, pval,
                   cpc, cw, cr, item, passed, pushes, pops, popped, lastPop, clobbered>>
    /\ UNCHANGED notRb

\* self.block.wait(is_locked): releases the mutex and blocks, atomically
PushWait ==
    /\ ppc = "wait"
    /\ mutex' = "free"
    /\ ppc' = "waiting"
    /\ UNCHANGED <<len, buf, write, read, is_locked, pw, pr, pval,
                   cpc, cw, cr, item, passed, pushes, pops, popped, lastPop, clobbered>>
    /\ UNCHANGED notRb

\* Condvar::wait may return without a notification (a spurious wakeup).
SpuriousWake ==
    /\ ppc = "waiting"
    /\ ppc' = "woken"
    /\ UNCHANGED <<len, buf, write, read, is_locked, mutex, pw, pr, pval,
                   cpc, cw, cr, item, passed, pushes, pops, popped, lastPop, clobbered>>
    /\ UNCHANGED notRb

\* wait re-acquires the mutex before it returns
PushReacquire ==
    /\ ppc = "woken"
    /\ mutex = "free"
    /\ mutex' = "producer"
    /\ ppc' = "unlock"
    /\ UNCHANGED <<len, buf, write, read, is_locked, pw, pr, pval,
                   cpc, cw, cr, item, passed, pushes, pops, popped, lastPop, clobbered>>
    /\ UNCHANGED notRb

\* the guard is dropped at the end of the block; return self.push_back(value)
PushRetry ==
    /\ ppc = "unlock"
    /\ mutex' = "free"
    /\ ppc' = "load_write"
    /\ UNCHANGED <<len, buf, write, read, is_locked, pw, pr, pval,
                   cpc, cw, cr, item, passed, pushes, pops, popped, lastPop, clobbered>>
    /\ UNCHANGED notRb

\* The slot push_back writes its value to: self.write(write, value)
PushSlot == pw

\* self.write(write, value)
PushWriteBuf ==
    /\ ppc = "write_buf"
    /\ buf' = [buf EXCEPT ![PushSlot] = pval]
    /\ clobbered' = (clobbered \/ PushSlot \in Unread)
    /\ ppc' = "store"
    /\ UNCHANGED <<len, write, read, is_locked, mutex, pw, pr, pval,
                   cpc, cw, cr, item, passed, pushes, pops, popped, lastPop>>
    /\ UNCHANGED notRb

\* self.write.store((write + 1) % self.len, SeqCst)
PushStore ==
    /\ ppc = "store"
    /\ write' = (pw + 1) % len
    /\ pushes' = pushes + 1
    /\ ppc' = "idle"
    /\ UNCHANGED <<len, buf, read, is_locked, mutex, pw, pr, pval,
                   cpc, cw, cr, item, passed, pops, popped, lastPop, clobbered>>
    /\ UNCHANGED notRb

\* ---- the consumer: pop_front() ----
\* let write = self.write.load(SeqCst)
PopLoadWrite ==
    /\ cpc = "idle"
    /\ cw' = write
    /\ cpc' = "load_read"
    /\ UNCHANGED <<len, buf, write, read, is_locked, mutex, ppc, pw, pr, pval,
                   cr, item, passed, pushes, pops, popped, lastPop, clobbered>>
    /\ UNCHANGED notRb

\* let read = self.read.load(SeqCst); if read == write { None }
PopLoadRead ==
    /\ cpc = "load_read"
    /\ cr' = read
    /\ \/ /\ IsEmpty(cw, read)
          /\ lastPop' = None
          /\ cpc' = "idle"
       \/ /\ ~IsEmpty(cw, read)
          /\ lastPop' = lastPop
          /\ cpc' = "read_buf"
    /\ UNCHANGED <<len, buf, write, read, is_locked, mutex, ppc, pw, pr, pval,
                   cw, item, passed, pushes, pops, popped, clobbered>>
    /\ UNCHANGED notRb

\* Reading the item at the write index instead of the read index.
PopSlotAtWrite == cw

\* The slot pop_front reads its item from: self.read(read)
PopSlot == cr

\* let item = self.read(read)
PopReadBuf ==
    /\ cpc = "read_buf"
    /\ item' = buf[PopSlot]
    /\ cpc' = "store"
    /\ UNCHANGED <<len, buf, write, read, is_locked, mutex, ppc, pw, pr, pval,
                   cw, cr, passed, pushes, pops, popped, lastPop, clobbered>>
    /\ UNCHANGED notRb

\* self.read.store((read + 1) % self.len, SeqCst)
PopStore ==
    /\ cpc = "store"
    /\ read' = (cr + 1) % len
    /\ pops' = pops + 1
    /\ cpc' = "lock"
    /\ UNCHANGED <<len, buf, write, is_locked, mutex, ppc, pw, pr, pval,
                   cw, cr, item, passed, pushes, popped, lastPop, clobbered>>
    /\ UNCHANGED notRb

\* let mut is_locked = self.is_locked.lock().unwrap()
PopLock ==
    /\ cpc = "lock"
    /\ mutex = "free"
    /\ mutex' = "consumer"
    /\ cpc' = "notify"
    /\ UNCHANGED <<len, buf, write, read, is_locked, ppc, pw, pr, pval,
                   cw, cr, item, passed, pushes, pops, popped, lastPop, clobbered>>
    /\ UNCHANGED notRb

\* if *is_locked { *is_locked = false; self.block.notify_all(); }
PopNotify ==
    /\ cpc = "notify"
    /\ \/ /\ is_locked
          /\ is_locked' = FALSE
          /\ ppc' = IF ppc = "waiting" THEN "woken" ELSE ppc
       \/ /\ ~is_locked
          /\ UNCHANGED <<is_locked, ppc>>
    /\ cpc' = "unlock"
    /\ UNCHANGED <<len, buf, write, read, mutex, pw, pr, pval,
                   cw, cr, item, passed, pushes, pops, popped, lastPop, clobbered>>
    /\ UNCHANGED notRb

\* the guard is dropped; Some(item)
PopReturn ==
    /\ cpc = "unlock"
    /\ mutex' = "free"
    /\ lastPop' = Some(item)
    /\ popped' = Append(popped, item)
    /\ cpc' = "idle"
    /\ UNCHANGED <<len, buf, write, read, is_locked, ppc, pw, pr, pval,
                   cw, cr, item, passed, pushes, pops, clobbered>>
    /\ UNCHANGED notRb

Producer ==
    \/ PushCall \/ PushLoadWrite \/ PushLoadRead \/ PushLock \/ PushSetLocked
    \/ PushWait \/ PushReacquire \/ PushRetry \/ PushWriteBuf \/ PushStore

Consumer ==
    \/ PopLoadWrite \/ PopLoadRead \/ PopReadBuf \/ PopStore \/ PopLock
    \/ PopNotify \/ PopReturn

RbNext == Producer \/ Consumer \/ SpuriousWake

-----------------------------------------------------------------------------
\* ---- Index<T> of gonk_core: a list with an optional selected position ----

\* Index::default()
IndexDefault == [data |-> <<>>, index |-> None]

\* Index::new(data, index)
IndexNew(data, index) == [data |-> data, index |-> index]

\* Index::selected(): the item at the selected position, if there is one
IndexSelected(ix) ==
    IF ix.index # None /\ Get(ix.index) < Len(ix.data)
    THEN Some(ix.data[Get(ix.index) + 1])
    ELSE None

\* Index::select(i)
IndexSelect(ix, i) == [ix EXCEPT !.index = i]

\* Index::extend(items)
IndexExtend(ix, items) == [ix EXCEPT !.data = ix.data \o items]

\* Vec::remove(i): the list without its item at position i (from 0)
RemoveAt(data, i) == SubSeq(data, 1, i) \o SubSeq(data, i + 2, Len(data))

\* Index::remove(i): removes the item, the selected position stays
IndexRemove(ix, i) == [ix EXCEPT !.data = RemoveAt(ix.data, i)]

\* Index::down(): the selected position moves one down, no further than the end
IndexDown(ix) ==
    IF ix.index # None /\ Get(ix.index) + 1 < Len(ix.data)
    THEN [ix EXCEPT !.index = Some(Get(ix.index) + 1)]
    ELSE ix

\* Index::up(): the selected position moves one up, no further than 0
IndexUp(ix) ==
    IF ix.index # None /\ Get(ix.index) > 0
    THEN [ix EXCEPT !.index = Some(Get(ix.index) - 1)]
    ELSE ix

-----------------------------------------------------------------------------
\* ---- Player of gonk-player/src/lib.rs, as a value p ----
\* p = [songs, state, symphonia, elapsed, position, loaded, calls]

States == {"Stopped", "Paused", "Playing", "Finished"}

\* Player::update_device(path): Symphonia::new(path) succeeds (ok) or fails
UpdateDevice(p, path, ok) ==
    IF ok
    THEN [p EXCEPT !.symphonia = Some(path), !.position = 0]
    ELSE p

\* Symphonia::seek(pos) on the stream of path: the position it ends at, no
\* further than the end of the stream
DecoderSeek(path, pos) ==
    IF pos > Steps(SongSeconds(path)) THEN Steps(SongSeconds(path)) ELSE pos

\* Player::seek(pos)
PlayerSeek(p, pos) ==
    IF p.symphonia # None
    THEN [p EXCEPT !.position = DecoderSeek(Get(p.symphonia), pos)]
    ELSE p

\* Player::play_song(path, gain)
PlaySong(p, path, ok) ==
    UpdateDevice([p EXCEPT !.state = "Playing", !.elapsed = 0,
                           !.loaded = Some(path), !.calls = p.calls + 1],
                 path, ok)

\* restore_song that opens the decoder and leaves it at the start.
RestoreSongNoSeek(p, path, e, ok) ==
    UpdateDevice([p EXCEPT !.state = "Paused", !.elapsed = e,
                           !.loaded = Some(path), !.calls = p.calls + 1],
                 path, ok)

\* Player::restore_song(path, gain, elapsed)
RestoreSong(p, path, e, ok) ==
    PlayerSeek(UpdateDevice([p EXCEPT !.state = "Paused", !.elapsed = e,
                                      !.loaded = Some(path),
                                      !.calls = p.calls + 1],
                            path, ok),
               e)

\* Player::new(device, volume, songs, elapsed)
PlayerNew(ix, e, ok) ==
    LET p == [songs |-> ix, state |-> "Stopped", symphonia |-> None,
              elapsed |-> 0, position |-> 0, loaded |-> None, calls |-> 0]
    IN  IF IndexSelected(ix) # None
        THEN RestoreSong(p, Get(IndexSelected(ix)), e, ok)
        ELSE p

\* Player::play_index(i)
PlayIndex(p, i, ok) ==
    LET q == [p EXCEPT !.songs = IndexSelect(p.songs, Some(i))]
    IN  IF IndexSelected(q.songs) # None
        THEN PlaySong(q, Get(IndexSelected(q.songs)), ok)
        ELSE q

\* Player::next()
PlayerNext(p, ok) ==
    LET q == [p EXCEPT !.songs = IndexDown(p.songs)]
    IN  IF IndexSelected(q.songs) # None
        THEN PlaySong(q, Get(IndexSelected(q.songs)), ok)
        ELSE q

\* Player::prev()
PlayerPrev(p, ok) ==
    LET q == [p EXCEPT !.songs = IndexUp(p.songs)]
    IN  IF IndexSelected(q.songs) # None
        THEN PlaySong(q, Get(IndexSelected(q.songs)), ok)
        ELSE q

\* clear that empties the queue and leaves the state and the decoder alone.
PlayerClearQueueOnly(p) == [p EXCEPT !.songs = IndexDefault]

\* Player::clear()
PlayerClear(p) ==
    [p EXCEPT !.state = "Stopped", !.symphonia = None, !.position = 0,
              !.songs = IndexDefault]

\* delete_index without the reload of the song that moved under the cursor.
DeleteIndexNoReload(p, i, ok) ==
    IF Len(p.songs.data) = 0 THEN p
    ELSE
    LET q == [p EXCEPT !.songs = IndexRemove(p.songs, i)]
        playing == Get(q.songs.index)
        n == Len(q.songs.data)
    IN  IF q.songs.index = None THEN q
        ELSE IF n = 0 THEN PlayerClear(q)
        ELSE IF i = playing /\ i = 0
             THEN [q EXCEPT !.songs = IndexSelect(q.songs, Some(0))]
        ELSE IF i = playing /\ i = n
             THEN [q EXCEPT !.songs = IndexSelect(q.songs, Some(n - 1))]
        ELSE IF i < playing
             THEN [q EXCEPT !.songs = IndexSelect(q.songs, Some(playing - 1))]
        ELSE q

\* Player::delete_index(index)
DeleteIndex(p, i, ok) ==
    IF Len(p.songs.data) = 0 THEN p
    ELSE
    LET q == [p EXCEPT !.songs = IndexRemove(p.songs, i)]
        playing == Get(q.songs.index)
        n == Len(q.songs.data)
    IN  IF q.songs.index = None THEN q
        ELSE IF n = 0 THEN PlayerClear(q)
        ELSE IF i = playing /\ i = 0
             THEN PlayIndex([q EXCEPT !.songs = IndexSelect(q.songs, Some(0))], 0, ok)
        ELSE IF i = playing /\ i = n
             THEN PlayIndex([q EXCEPT !.songs = IndexSelect(q.songs, Some(n - 1))],
                            n - 1, ok)
        ELSE IF i < playing
             THEN [q EXCEPT !.songs = IndexSelect(q.songs, Some(playing - 1))]
        ELSE q

\* Player::clear_except_playing()
ClearExceptPlaying(p) ==
    IF p.songs.index # None
    THEN [p EXCEPT !.songs = IndexNew(<<p.songs.data[Get(p.songs.index) + 1]>>,
                                     Some(0))]
    ELSE p

\* Player::add(songs)
PlayerAdd(p, items, ok) ==
    LET q == [p EXCEPT !.songs = IndexExtend(p.songs, items)]
    IN  IF IndexSelected(q.songs) = None
        THEN PlayIndex([q EXCEPT !.songs = IndexSelect(q.songs, Some(0))], 0, ok)
        ELSE q

\* Player::toggle_playback()
TogglePlayback(p) ==
    IF p.state = "Paused" THEN [p EXCEPT !.state = "Playing"]
    ELSE IF p.state = "Playing" THEN [p EXCEPT !.state = "Paused"]
    ELSE p

\* Player::seek_foward(): (elapsed + 10.0).clamp(0.0, f32::MAX)
SeekForward(p) == PlayerSeek(p, Steps(Seconds(p.elapsed) + 10))

\* Player::seek_backward(): (elapsed - 10.0).clamp(0.0, f32::MAX)
SeekBackward(p) ==
    PlayerSeek(p, IF Seconds(p.elapsed) - 10 < 0 THEN 0
                  ELSE Steps(Seconds(p.elapsed) - 10))

\* The decoder of p stands at the end of its stream.
AtEnd(p) ==
    p.symphonia # None /\ p.position >= Steps(SongSeconds(Get(p.symphonia)))

\* Player::update(): adv is how far the packet read by next_packet moves the
\* decoder's position, full whether BUFFER is full, eof whether next_packet
\* returns None before the end of the stream is reached (at the end it does)
PlayerUpdate(p, ok, adv, full, eof) ==
    LET q == IF p.state = "Finished" THEN PlayerNext(p, ok) ELSE p
    IN  IF q.state # "Playing" \/ q.symphonia = None THEN q
        ELSE
        LET r == [q EXCEPT !.elapsed = q.position]
            end == Steps(SongSeconds(Get(q.symphonia)))
            to == IF q.position + adv > end THEN end ELSE q.position + adv
            np == IF to > MaxElapsed THEN MaxElapsed ELSE to
        IN  IF full THEN r
            ELSE IF eof \/ AtEnd(q) THEN [r EXCEPT !.state = "Finished"]
            ELSE [r EXCEPT !.position = np, !.elapsed = np]

\* The gonk-player Player the variables hold.
GonkSelf ==
    [songs |-> songs, state |-> state, symphonia |-> symphonia,
     elapsed |-> elapsed, position |-> position, loaded |-> loaded,
     calls |-> 0]

\* An operation took the Player to q.
GonkStep(q) ==
    /\ crate = "gonk_player"
    /\ ~panicked
    /\ songs' = q.songs
    /\ state' = q.state
    /\ symphonia' = q.symphonia
    /\ elapsed' = q.elapsed
    /\ position' = q.position
    /\ loaded' = q.loaded
    /\ calls' = q.calls
    /\ UNCHANGED <<crate, rodioVars, panicked>>
    /\ UNCHANGED notQueue

\* The lists of at most n songs.
SongLists(n) == UNION {[1..k -> Songs] : k \in 0..n}

\* add(items)
GonkAddOf(items, ok) ==
    /\ Len(songs.data) + Len(items) <= MaxQueue
    /\ GonkStep(PlayerAdd(GonkSelf, items, ok))

GonkAdd == \E items \in SongLists(MaxAdd), ok \in BOOLEAN : GonkAddOf(items, ok)

\* play_index(i)
GonkPlayIndexAt(i, ok) == GonkStep(PlayIndex(GonkSelf, i, ok))

GonkPlayIndex == \E i \in 0..MaxQueue, ok \in BOOLEAN : GonkPlayIndexAt(i, ok)

GonkNext == \E ok \in BOOLEAN : GonkStep(PlayerNext(GonkSelf, ok))

GonkPrev == \E ok \in BOOLEAN : GonkStep(PlayerPrev(GonkSelf, ok))

\* delete_index(i). self.songs.remove(index) panics when index is not a
\* position of the queue: delete_index is called on an empty queue or with a
\* position of the queue.
GonkDeleteIndexAt(i, ok) ==
    /\ IF Len(songs.data) = 0 THEN TRUE ELSE i < Len(songs.data)
    /\ GonkStep(DeleteIndex(GonkSelf, i, ok))

GonkDeleteIndex ==
    \E i \in 0..MaxQueue, ok \in BOOLEAN : GonkDeleteIndexAt(i, ok)

GonkClear == GonkStep(PlayerClear(GonkSelf))

\* A method of the gonk-player Player panics.
GonkPanic ==
    /\ crate = "gonk_player"
    /\ ~panicked
    /\ panicked' = TRUE
    /\ UNCHANGED <<crate, gonkVars, rodioVars, opVars>>
    /\ UNCHANGED notQueue

\* clear_except_playing(): self.songs.remove(index) panics when the cursor is
\* not a position of the queue.
GonkClearExceptPlaying ==
    IF songs.index = None \/ SongAt(songs.data, songs.index) # None
    THEN GonkStep(ClearExceptPlaying(GonkSelf))
    ELSE GonkPanic

GonkTogglePlayback == GonkStep(TogglePlayback(GonkSelf))

\* update(): the open result matters when the finished song is followed by a
\* load, the end of the stream when BUFFER has room for a packet
GonkUpdate ==
    \E ok \in (IF state = "Finished" THEN BOOLEAN ELSE {TRUE}),
       adv \in 0..1, full \in BOOLEAN :
        \E eof \in (IF full THEN {FALSE} ELSE BOOLEAN) :
            GonkStep(PlayerUpdate(GonkSelf, ok, adv, full, eof))

\* seek_foward(), as long as the position stays within the time counted
GonkSeekForward ==
    /\ SeekForward(GonkSelf).position <= MaxElapsed
    /\ GonkStep(SeekForward(GonkSelf))

GonkSeekBackward == GonkStep(SeekBackward(GonkSelf))

\* restore_song(path, gain, elapsed)
GonkRestoreSongOf(path, e, ok) == GonkStep(RestoreSong(GonkSelf, path, e, ok))

GonkRestoreSong ==
    \E path \in Songs, e \in 0..MaxElapsed, ok \in BOOLEAN :
        GonkRestoreSongOf(path, e, ok)

GonkNextAction ==
    \/ GonkAdd \/ GonkPlayIndex \/ GonkNext \/ GonkPrev \/ GonkDeleteIndex
    \/ GonkClear \/ GonkClearExceptPlaying \/ GonkTogglePlayback \/ GonkUpdate
    \/ GonkSeekForward \/ GonkSeekBackward

-----------------------------------------------------------------------------
\* ---- Player of rodio/src/lib.rs, as a value r ----
\* r = [songs, current_song, sink, total_duration, loaded, calls]

\* Sink::try_new: a sink that plays and holds no source
SinkNew == [paused |-> FALSE, source |-> None, elapsed |-> 0]

\* Player::stop()
RodioStop(r) == [r EXCEPT !.sink = SinkNew]

\* Decoder::total_duration(): the length of the stream in seconds, None for a
\* stream the decoder cannot tell the length of
TotalDuration(song) == IF song = "C" THEN None ELSE Some(SongSeconds(song))

\* Player::play_selected()
PlaySelected(r) ==
    IF r.current_song # None /\ Get(r.current_song) < Len(r.songs)
    THEN LET song == r.songs[Get(r.current_song) + 1]
         IN  [RodioStop(r) EXCEPT !.sink.source = Some(song),
                                  !.total_duration = TotalDuration(song),
                                  !.loaded = Some(song),
                                  !.calls = r.calls + 1]
    ELSE r

\* Player::add_songs(song)
AddSongs(r, items) ==
    LET q == [r EXCEPT !.songs = r.songs \o items]
    IN  IF q.current_song = None /\ Len(q.songs) # 0
        THEN PlaySelected([q EXCEPT !.current_song = Some(0)])
        ELSE q

\* Player::play_song(i)
RodioPlaySong(r, i) ==
    IF i < Len(r.songs)
    THEN PlaySelected([r EXCEPT !.current_song = Some(i)])
    ELSE r

\* Player::clear_songs()
ClearSongs(r) == RodioStop([r EXCEPT !.songs = <<>>, !.current_song = None])

\* Player::prev_song()
PrevSong(r) ==
    IF r.current_song # None
    THEN LET i == IF Get(r.current_song) = 0 THEN 0 ELSE Get(r.current_song) - 1
         IN  IF i < Len(r.songs)
             THEN PlaySelected([r EXCEPT !.current_song = Some(i)])
             ELSE r
    ELSE r

\* next_song that goes round to the first song after the last one.
NextSongWrap(r) ==
    IF r.current_song # None
    THEN LET i == Get(r.current_song) + 1
         IN  IF i < Len(r.songs)
             THEN PlaySelected([r EXCEPT !.current_song = Some(i)])
             ELSE IF Len(r.songs) > 0
             THEN PlaySelected([r EXCEPT !.current_song = Some(0)])
             ELSE r
    ELSE r

\* Player::next_song()
NextSong(r) ==
    IF r.current_song # None
    THEN LET i == Get(r.current_song) + 1
         IN  IF i < Len(r.songs)
             THEN PlaySelected([r EXCEPT !.current_song = Some(i)])
             ELSE r
    ELSE r

\* Player::delete_song(selected)
DeleteSong(r, selected) ==
    LET q == [r EXCEPT !.songs = RemoveAt(r.songs, selected)]
        cur == Get(r.current_song)
        n == Len(q.songs)
        end == IF n = 0 THEN 0 ELSE n - 1
    IN  IF r.current_song = None THEN q
        ELSE IF n = 0 THEN ClearSongs(q)
        ELSE
        LET c1 == IF cur = selected /\ selected = 0 THEN 0
                  ELSE IF cur = selected /\ n = selected THEN n - 1
                  ELSE IF selected < cur THEN cur - 1
                  ELSE cur
            c2 == IF selected > end THEN end ELSE c1
            q2 == [q EXCEPT !.current_song = Some(c2)]
        IN  IF selected = cur THEN PlaySelected(q2) ELSE q2

\* The orders songs.shuffle(&mut thread_rng()) can leave the list in.
Shuffles(list) ==
    {[k \in 1..Len(list) |-> list[f[k]]] : f \in Permutations(1..Len(list))}

\* The position randomize settles on: the last one holding a song equal to
\* `song`, and 0 when there is none.
LastIndexOf(list, song) ==
    LET hits == {k \in 1..Len(list) : list[k] = song}
    IN  IF hits = {} THEN 0
        ELSE (CHOOSE k \in hits : \A j \in hits : j <= k) - 1

\* randomize that shuffles and leaves the cursor on the position it was on.
RandomizeKeepIndex(r, shuffled) ==
    IF r.current_song # None /\ Get(r.current_song) < Len(r.songs)
    THEN [r EXCEPT !.songs = shuffled]
    ELSE r

\* Player::randomize(): shuffled is the order the shuffle left
Randomize(r, shuffled) ==
    IF r.current_song # None /\ Get(r.current_song) < Len(r.songs)
    THEN LET song == r.songs[Get(r.current_song) + 1]
         IN  [r EXCEPT !.songs = shuffled,
                       !.current_song = Some(LastIndexOf(shuffled, song))]
    ELSE r

\* Player::toggle_playback(): Sink::toggle_playback
RodioTogglePlayback(r) == [r EXCEPT !.sink.paused = ~r.sink.paused]

\* sink.elapsed() is past Player::duration(), total_duration - 0.29 s; both
\* sides in hundredths of a second
PastDuration(r, secs) ==
    r.total_duration # None /\ 100 * secs > 100 * Get(r.total_duration) - 29

\* Sink::seek(time): the source of the sink is moved to time
SinkSeek(r, secs) ==
    IF r.sink.source # None THEN [r EXCEPT !.sink.elapsed = Steps(secs)] ELSE r

\* Player::seek_fw()
SeekFw(r) ==
    LET seek == Seconds(r.sink.elapsed) + 10
    IN  IF r.total_duration = None \/ PastDuration(r, seek)
        THEN r
        ELSE SinkSeek(r, seek)

\* Player::seek_bw()
SeekBw(r) ==
    LET seek == Seconds(r.sink.elapsed) - 10
    IN  SinkSeek(r, IF seek < 0 THEN 0 ELSE seek)

\* Player::update()
RodioUpdate(r) ==
    IF PastDuration(r, Seconds(r.sink.elapsed)) THEN NextSong(r) ELSE r

\* The rodio Player the variables hold.
RodioSelf ==
    [songs |-> rodio_songs, current_song |-> current_song, sink |-> sink,
     total_duration |-> total_duration, loaded |-> loaded, calls |-> 0]

\* An operation took the Player to q.
RodioStep(q) ==
    /\ crate = "rodio"
    /\ ~panicked
    /\ rodio_songs' = q.songs
    /\ current_song' = q.current_song
    /\ sink' = q.sink
    /\ total_duration' = q.total_duration
    /\ loaded' = q.loaded
    /\ calls' = q.calls
    /\ UNCHANGED <<crate, gonkVars, panicked>>
    /\ UNCHANGED notQueue

\* add_songs(items)
RodioAddSongsOf(items) ==
    /\ Len(rodio_songs) + Len(items) <= MaxQueue
    /\ RodioStep(AddSongs(RodioSelf, items))

RodioAddSongs == \E items \in SongLists(MaxAdd) : RodioAddSongsOf(items)

\* play_song(i)
RodioPlaySongAt(i) == RodioStep(RodioPlaySong(RodioSelf, i))

RodioPlaySongAny == \E i \in 0..MaxQueue : RodioPlaySongAt(i)

RodioClearSongs == RodioStep(ClearSongs(RodioSelf))

RodioPrevSong == RodioStep(PrevSong(RodioSelf))

RodioNextSong == RodioStep(NextSong(RodioSelf))

\* delete_song(i). self.songs.remove(selected) panics when selected is not a
\* position of the queue: delete_song is called with a position of the queue.
RodioDeleteSongAt(i) ==
    /\ i < Len(rodio_songs)
    /\ RodioStep(DeleteSong(RodioSelf, i))

RodioDeleteSong == \E i \in 0..MaxQueue : RodioDeleteSongAt(i)

RodioRandomize ==
    \E shuffled \in Shuffles(rodio_songs) :
        RodioStep(Randomize(RodioSelf, shuffled))

RodioToggle == RodioStep(RodioTogglePlayback(RodioSelf))

\* The sink plays its source: its elapsed time moves on.
RodioPlayback ==
    /\ ~sink.paused
    /\ sink.source # None
    /\ sink.elapsed < MaxElapsed
    /\ RodioStep([RodioSelf EXCEPT !.sink.elapsed = sink.elapsed + 1])

\* seek_fw(), as long as the position stays within the time counted
RodioSeekFw ==
    /\ SeekFw(RodioSelf).sink.elapsed <= MaxElapsed
    /\ RodioStep(SeekFw(RodioSelf))

RodioSeekBw == RodioStep(SeekBw(RodioSelf))

\* update()
RodioTick == RodioStep(RodioUpdate(RodioSelf))

RodioNextAction ==
    \/ RodioAddSongs \/ RodioPlaySongAny \/ RodioClearSongs \/ RodioPrevSong
    \/ RodioNextSong \/ RodioDeleteSong \/ RodioRandomize \/ RodioToggle
    \/ RodioPlayback \/ RodioSeekFw \/ RodioSeekBw \/ RodioTick

-----------------------------------------------------------------------------
\* f32: zero, or m * 2^e with a mantissa m of 24 bits.
F32Zero == [m |-> 0, e |-> 0]

\* The f32 nearest to (n / d) * 2^e, ties to the even mantissa.
RECURSIVE F32Round(_, _, _)
F32Round(n, d, e) ==
    IF n = 0 THEN F32Zero
    ELSE IF n \div d >= 2^24 THEN F32Round(n, 2 * d, e + 1)
    ELSE IF n \div d < 2^23 THEN F32Round(2 * n, d, e - 1)
    ELSE
    LET q == n \div d
        r == n % d
        m == IF 2 * r > d \/ (2 * r = d /\ q % 2 = 1) THEN q + 1 ELSE q
    IN  IF m = 2^24 THEN [m |-> 2^23, e |-> e + 1] ELSE [m |-> m, e |-> e]

\* n as f32, for an integer n of at most 24 bits
AsF32(n) == F32Round(n, 1, 0)

\* x * 150.0 and x / 150.0 in f32 (150 = 75 * 2)
VOLUME_REDUCTION == 150
TimesReduction(x) == F32Round(x.m * (VOLUME_REDUCTION \div 2), 1, x.e + 1)
OverReduction(x) == F32Round(x.m, VOLUME_REDUCTION \div 2, x.e - 1)

\* x as an integer of 0..max: the fraction is dropped and the value saturates
\* (x is never negative here).
AsInt(x, max) ==
    IF x.m = 0 \/ x.e < -24 THEN 0
    ELSE IF x.e >= 0 THEN max
    ELSE LET t == x.m \div (2^(-x.e)) IN IF t > max THEN max ELSE t
AsU8(x) == AsInt(x, 255)
AsI8(x) == AsInt(x, 127)

Clamp(n, lo, hi) == IF n < lo THEN lo ELSE IF n > hi THEN hi ELSE n

\* Player::new of gonk-player: volume: volume as f32 / VOLUME_REDUCTION
NewVolume(v) == OverReduction(AsF32(v))

\* volume() of gonk-player
Volume(x) == AsU8(TimesReduction(x))

\* volume_up() of gonk-player
VolumeUp(x) == OverReduction(AsF32(Clamp(AsU8(TimesReduction(x)) + 5, 0, 100)))

\* volume_down() of gonk-player
VolumeDown(x) == OverReduction(AsF32(Clamp(AsI8(TimesReduction(x)) - 5, 0, 100)))

GonkVolumeStep(x) ==
    /\ crate = "gonk_player"
    /\ ~panicked
    /\ volume' = x
    /\ UNCHANGED <<rbVars, crate, gonkVars, rodioVars, opVars, rodio_volume, panicked>>
    /\ UNCHANGED laterVars

GonkVolumeUp == GonkVolumeStep(VolumeUp(volume))

GonkVolumeDown == GonkVolumeStep(VolumeDown(volume))

\* The builds of the crate: overflow checks on (debug) or off (release).
Builds == {"debug", "release"}

\* u16 arithmetic: the result, and whether the operation panicked. On an
\* overflow the debug build panics and the release build wraps.
U16(n, build) ==
    IF n \in 0..65535 THEN [value |-> n, panic |-> FALSE]
    ELSE IF build = "debug" THEN [value |-> 0, panic |-> TRUE]
    ELSE [value |-> n % 65536, panic |-> FALSE]

VOLUME_STEP == 5

\* volume_up() of rodio
RodioVolumeUp(v, build) ==
    LET sum == U16(v + VOLUME_STEP, build)
    IN  IF sum.panic THEN [value |-> v, panic |-> TRUE]
        ELSE IF sum.value > 100 THEN [value |-> 100, panic |-> FALSE]
        ELSE sum

\* volume_down() of rodio
RodioVolumeDown(v, build) ==
    IF v # 0
    THEN LET diff == U16(v - VOLUME_STEP, build)
         IN  IF diff.panic THEN [value |-> v, panic |-> TRUE] ELSE diff
    ELSE [value |-> v, panic |-> FALSE]

RodioVolumeStep(r) ==
    /\ crate = "rodio"
    /\ ~panicked
    /\ rodio_volume' = r.value
    /\ panicked' = r.panic
    /\ UNCHANGED <<rbVars, crate, gonkVars, rodioVars, opVars, volume>>
    /\ UNCHANGED laterVars

RodioVolumeUpCall == \E build \in Builds : RodioVolumeStep(RodioVolumeUp(rodio_volume, build))

RodioVolumeDownCall ==
    \E build \in Builds : RodioVolumeStep(RodioVolumeDown(rodio_volume, build))

VolumeNext ==
    \/ GonkVolumeUp
    \/ GonkVolumeDown
    \/ RodioVolumeUpCall
    \/ RodioVolumeDownCall

\* The volume the application starts its Player with.
StartVolume == 15

\* The volume Player::new of the crate in use is handed.
VolumeInit ==
    \E v \in 0..MaxStartVolume :
        IF crate = "gonk_player"
        THEN volume = NewVolume(v) /\ rodio_volume = StartVolume
        ELSE volume = NewVolume(StartVolume) /\ rodio_volume = v
VolumeAtRest ==
    /\ volume = NewVolume(StartVolume)
    /\ rodio_volume = StartVolume

-----------------------------------------------------------------------------
\* The gain of the gonk-player Player (gonk-player/src/lib.rs)

\* The gains a song may carry, in hundredths; 0 stands for a song without one.
Gains == {0, 25, 50, 80}

\* gain: 0.5 of Player::new, and the 0.5 update() takes for a gain of 0.0
Half == 50

\* if gain != 0.0 { self.gain = gain; } of play_song and restore_song
SetGain(old, g) == IF g # 0 THEN g ELSE old

\* let gain = if self.gain == 0.0 { 0.5 } else { self.gain } of update()
UpdateGain(gn) == IF gn = 0 THEN Half ELSE gn

\* self.volume * gain, a hundred times its value and before it is rounded
Multiplier(v, gn) == [m |-> v.m * gn, e |-> v.e]

\* update() gets as far as fill_buffer.
Fills(p, ok) ==
    LET q == IF p.state = "Finished" THEN PlayerNext(p, ok) ELSE p
    IN  q.state = "Playing" /\ q.symphonia # None

\* An operation took the Player to q, its gain to gn and left a as the latest
\* argument of fill_buffer; g is the gain of the load the operation made, if
\* it made one.
GainStep(q, gn, g, a) ==
    /\ crate = "gonk_player"
    /\ ~panicked
    /\ songs' = q.songs
    /\ state' = q.state
    /\ symphonia' = q.symphonia
    /\ elapsed' = q.elapsed
    /\ position' = q.position
    /\ loaded' = q.loaded
    /\ calls' = q.calls
    /\ gain' = gn
    /\ track_gain' = g
    /\ applied' = a
    /\ UNCHANGED <<crate, rodioVars, panicked, rbVars, volumeVars>>
    /\ UNCHANGED <<srcVars, dbVars, recVars, plVars, uiVars, pauseVars, searchVars>>

\* play_song(path, g)
GainPlaySong ==
    \E path \in Songs, g \in Gains, ok \in BOOLEAN :
        GainStep(PlaySong(GonkSelf, path, ok), SetGain(gain, g), Some(g), None)

\* restore_song(path, g, e)
GainRestoreSong ==
    \E path \in Songs, g \in Gains, e \in 0..MaxElapsed, ok \in BOOLEAN :
        GainStep(RestoreSong(GonkSelf, path, e, ok), SetGain(gain, g), Some(g),
                 None)

\* play()
GainPlay == GainStep([GonkSelf EXCEPT !.state = "Playing"], gain, track_gain, applied)

\* update() of a Player whose queue is empty, so that its next() loads nothing
GainUpdate ==
    /\ songs = IndexDefault
    /\ \E ok \in (IF state = "Finished" THEN BOOLEAN ELSE {TRUE}),
          adv \in 0..1, full \in BOOLEAN :
           \E eof \in (IF full THEN {FALSE} ELSE BOOLEAN) :
               GainStep(PlayerUpdate(GonkSelf, ok, adv, full, eof), gain,
                        track_gain,
                        IF Fills(GonkSelf, ok)
                        THEN Some(Multiplier(volume, UpdateGain(gain)))
                        ELSE applied)

GainNext == GainPlaySong \/ GainRestoreSong \/ GainPlay \/ GainUpdate

\* Player::new with an empty queue: gain: 0.5, and nothing loaded
GainInit ==
    /\ gain = Half
    /\ track_gain = None
    /\ applied = None

-----------------------------------------------------------------------------
\* SampleRateConverter (gonk-player/src/sample_rate.rs)

RECURSIVE gcd(_, _)
gcd(a, b) == IF b = 0 THEN a ELSE gcd(b, a % b)

\* lerp(a, b, t) with t = numerator / to: a + t * (b - a), as the fraction
\* <<numerator of the result, to>>
lerp(a, b, numerator, to) == <<a * to + numerator * (b - a), to>>

\* The first n elements of s, or all of s if it has fewer; s without them.
Take(s, n) == SubSeq(s, 1, IF n < Len(s) THEN n ELSE Len(s))
Drop(s, n) == SubSeq(s, (IF n < Len(s) THEN n ELSE Len(s)) + 1, Len(s))

\* The first two frames taken from the input whatever the rates.
PrimeAlways(c, input) ==
    IF Len(input) < 4 THEN [c EXCEPT !.panic = TRUE]
    ELSE [c EXCEPT !.input = Drop(input, 4),
                   !.current_frame = SubSeq(input, 1, 2),
                   !.next_frame = SubSeq(input, 3, 4),
                   !.current_frame_pos_in_chunk = 0,
                   !.next_output_frame_pos_in_chunk = 0]

\* The fields new and update set from the input and the rates kept: no frame
\* when the rates are equal, else the first two frames, taken from the input
\* with unwrap() (which panics on an input of fewer than four samples).
Prime(c, input) ==
    IF c.from = c.to
    THEN [c EXCEPT !.input = input, !.current_frame = <<>>, !.next_frame = <<>>,
                   !.current_frame_pos_in_chunk = 0,
                   !.next_output_frame_pos_in_chunk = 0]
    ELSE IF Len(input) < 4 THEN [c EXCEPT !.panic = TRUE]
    ELSE [c EXCEPT !.input = Drop(input, 4),
                   !.current_frame = SubSeq(input, 1, 2),
                   !.next_frame = SubSeq(input, 3, 4),
                   !.current_frame_pos_in_chunk = 0,
                   !.next_output_frame_pos_in_chunk = 0]

\* SampleRateConverter::new(input, from_rate, to_rate)
ConverterNew(input, from_rate, to_rate) ==
    Prime([input |-> input,
           from |-> from_rate \div gcd(from_rate, to_rate),
           to |-> to_rate \div gcd(from_rate, to_rate),
           current_frame |-> <<>>,
           current_frame_pos_in_chunk |-> 0,
           next_frame |-> <<>>,
           next_output_frame_pos_in_chunk |-> 0,
           output_buffer |-> None,
           panic |-> FALSE], input)

\* next_input_frame()
NextInputFrame(c) ==
    [c EXCEPT !.current_frame_pos_in_chunk = @ + 1,
              !.current_frame = c.next_frame,
              !.next_frame = Take(c.input, 2),
              !.input = Drop(c.input, 2)]

\* while self.current_frame_pos_in_chunk != pos { self.next_input_frame(); }
RECURSIVE AdvanceTo(_, _)
AdvanceTo(c, pos) ==
    IF c.current_frame_pos_in_chunk = pos THEN c
    ELSE AdvanceTo(NextInputFrame(c), pos)

\* update(input)
ConverterUpdate(c, input) == Prime(c, input)

\* next() up to the merge of the frames: the converter with current_frame and
\* next_frame in place, and the numerator of the interpolation.
Position(c) ==
    IF c.next_output_frame_pos_in_chunk = c.to
    THEN [c |-> [AdvanceTo(NextInputFrame(c), c.from)
                    EXCEPT !.current_frame_pos_in_chunk = 0,
                           !.next_output_frame_pos_in_chunk = 1],
          numerator |-> 0]
    ELSE [c |-> [AdvanceTo(c, ((c.from * c.next_output_frame_pos_in_chunk) \div c.to)
                                    % c.from)
                    EXCEPT !.next_output_frame_pos_in_chunk = @ + 1],
          numerator |-> (c.from * c.next_output_frame_pos_in_chunk) % c.to]

\* next(): [c |-> the converter after the call, result |-> what it returned];
\* c.panic is set when an index is out of bounds.
ConverterNext(c) ==
    IF c.from = c.to
    THEN [c |-> [c EXCEPT !.input = Drop(c.input, 1)],
          result |-> IF c.input = <<>> THEN None ELSE Some(c.input[1])]
    ELSE IF c.output_buffer # None
    THEN [c |-> [c EXCEPT !.output_buffer = None], result |-> Some(Get(c.output_buffer))]
    ELSE
    LET p == Position(c)
        d == p.c
    IN  IF d.next_frame = <<>>
        THEN IF d.current_frame = <<>>
             THEN [c |-> d, result |-> None]
             ELSE IF Len(d.current_frame) < 2
             THEN [c |-> [d EXCEPT !.current_frame = Drop(@, 1), !.panic = TRUE],
                   result |-> None]
             ELSE [c |-> [d EXCEPT !.current_frame = Drop(@, 1),
                                   !.output_buffer = Some(<<d.current_frame[2], 1>>)],
                   result |-> Some(<<d.current_frame[1], 1>>)]
        ELSE IF Len(d.current_frame) < 2 \/ Len(d.next_frame) < 2
             THEN [c |-> [d EXCEPT !.panic = TRUE], result |-> None]
             ELSE [c |-> [d EXCEPT !.output_buffer =
                              Some(lerp(d.current_frame[2], d.next_frame[2],
                                        p.numerator, d.to))],
                   result |-> Some(lerp(d.current_frame[1], d.next_frame[1],
                                        p.numerator, d.to))]

\* The first n samples next() returns, fewer if it returns None before.
RECURSIVE Outputs(_, _)
Outputs(c, n) ==
    IF n = 0 THEN <<>>
    ELSE LET r == ConverterNext(c)
         IN  IF r.result = None THEN <<>>
             ELSE <<Get(r.result)>> \o Outputs(r.c, n - 1)

\* The inputs: the samples base + 1, base + 2, ... of a stream.
Stream(base, n) == [i \in 1..n |-> base + i]
FirstInputs == {Stream(0, n) : n \in 0..MaxSamples}
LaterInputs == {Stream(10, n) : n \in 0..MaxSamples}

\* The converter is c after a call.
ConverterStep(c) ==
    /\ converter' = c
    /\ panicked' = c.panic
    /\ UNCHANGED <<playerVars, dbVars, recVars, plVars, uiVars, moreVars>>

\* a call of next()
ConverterNextCall ==
    /\ ~panicked
    /\ LET n == ConverterNext(converter)
       IN  /\ ConverterStep(n.c)
           /\ returned' = IF n.result = None THEN returned
                          ELSE Append(returned, Get(n.result))
           /\ ended' = (ended \/ (n.result = None /\ ~n.c.panic))
    /\ UNCHANGED <<fed, updated>>

\* a call of update(input), once
ConverterUpdateWith(input) ==
    /\ ~panicked
    /\ ~updated
    /\ ConverterStep(ConverterUpdate(converter, input))
    /\ fed' = input
    /\ returned' = <<>>
    /\ ended' = FALSE
    /\ updated' = TRUE

ConverterUpdateCall == \E input \in LaterInputs : ConverterUpdateWith(input)

SrcNext == ConverterNextCall \/ ConverterUpdateCall

\* The converter new(input, from_rate, to_rate) built.
SrcIs(input, from_rate, to_rate) ==
    /\ converter = ConverterNew(input, from_rate, to_rate)
    /\ fed = input
    /\ returned = <<>>
    /\ ended = FALSE
    /\ updated = FALSE

SrcInit ==
    \E input \in FirstInputs, from_rate \in 1..MaxRate, to_rate \in 1..MaxRate :
        SrcIs(input, from_rate, to_rate)

\* No converter is in use: one that passes nothing through.
SrcAtRest == SrcIs(<<>>, 1, 1)

-----------------------------------------------------------------------------
\* Database (gonk-database/src/sqlite.rs)

\* The files on disk: the path, the directories the file is under, its
\* extension, and whether its tags can be read.
FileList ==
    << [path |-> "R1/x.flac", under |-> {"R1"}, ext |-> "flac", tags |-> TRUE],
       [path |-> "R1/y.mp3", under |-> {"R1"}, ext |-> "mp3", tags |-> TRUE],
       [path |-> "R1/z.txt", under |-> {"R1"}, ext |-> "txt", tags |-> TRUE],
       [path |-> "R1/sub/w.ogg", under |-> {"R1", "R1/sub"}, ext |-> "ogg", tags |-> TRUE],
       [path |-> "R2/n.txt", under |-> {"R2"}, ext |-> "txt", tags |-> TRUE],
       [path |-> "R2/bad.m4a", under |-> {"R2"}, ext |-> "m4a", tags |-> FALSE] >>

\* The directories add_dirs and sync_database are handed.
Roots == {"R1", "R1/sub", "R2"}

\* matches!(ex.to_str(), Some("flac" | "mp3" | "ogg" | "wav" | "m4a"))
IsAudio(f) == f.ext \in {"flac", "mp3", "ogg", "wav", "m4a"}

\* Song::from(&dir) of the tag reader: a file whose tags cannot be read is
\* skipped.
TagRead(f) == IF f.tags THEN Some(f) ELSE None

\* The songs of the walk of dir
Walk(dir) ==
    SelectSeq(FileList, LAMBDA f : dir \in f.under /\ IsAudio(f) /\ TagRead(f) # None)

\* The paths of the rows of a table.
Paths(table) == {table[i].path : i \in 1..Len(table)}

\* INSERT INTO song without OR IGNORE and without the UNIQUE of path
RECURSIVE InsertAll(_, _, _)
InsertAll(table, found, parent) ==
    IF found = <<>> THEN table
    ELSE InsertAll(Append(table, [path |-> Head(found).path, parent |-> parent]),
                   Tail(found), parent)

\* INSERT OR IGNORE INTO song ... for each of songs, path being UNIQUE
RECURSIVE InsertOrIgnore(_, _, _)
InsertOrIgnore(table, found, parent) ==
    IF found = <<>> THEN table
    ELSE InsertOrIgnore(
             IF Head(found).path \in Paths(table) THEN table
             ELSE Append(table, [path |-> Head(found).path, parent |-> parent]),
             Tail(found), parent)

\* The lists of at most MaxRoots different directories
RootLists ==
    {l \in UNION {[1..n -> Roots] : n \in 0..MaxRoots} :
        \A i, j \in 1..Len(l) : i # j => l[i] # l[j]}

Members(l) == {l[i] : i \in 1..Len(l)}

\* No thread of add_dirs is running.
AtRest == \A i \in 1..Len(workers) : workers[i].status # "running"

\* The steps of the database leave the rest alone.
DbFrame == UNCHANGED <<playerVars, srcVars, recVars, plVars, uiVars, panicked, moreVars>>

\* add_dirs(dirs)
AddDirsOf(dirs) ==
    /\ Len(workers) < MaxScans
    /\ busy' = TRUE
    /\ workers' = Append(workers, [given |-> dirs, dirs |-> dirs, status |-> "running"])
    /\ declared' = None
    /\ undeclared' = {}
    /\ UNCHANGED <<song_table, scanned>>
    /\ DbFrame

AddDirs == \E dirs \in RootLists : AddDirsOf(dirs)

\* sync_database(toml_paths)
SyncDatabaseOf(toml_paths) ==
    LET paths == {song_table[i].parent : i \in 1..Len(song_table)}
        kept == SelectSeq(song_table, LAMBDA row : row.parent \in Members(toml_paths))
        paths_to_add == SelectSeq(toml_paths, LAMBDA path : path \notin paths)
    IN  /\ Len(workers) < MaxScans
        /\ song_table' = kept
        /\ scanned' = IF kept = song_table THEN scanned ELSE {}
        /\ declared' = IF AtRest THEN Some(toml_paths) ELSE None
        /\ undeclared' =
               UNION {Members(workers[i].given) :
                         i \in {k \in 1..Len(workers) : workers[k].status = "running"}}
                   \ Members(toml_paths)
        /\ IF paths_to_add # <<>>
           THEN /\ busy' = TRUE
                /\ workers' = Append(workers, [given |-> paths_to_add,
                                               dirs |-> paths_to_add,
                                               status |-> "running"])
           ELSE /\ workers' = Append(workers, [given |-> <<>>, dirs |-> <<>>,
                                               status |-> "none"])
                /\ UNCHANGED busy
        /\ DbFrame

SyncDatabase == \E toml_paths \in RootLists : SyncDatabaseOf(toml_paths)

\* What happens to a directory in the thread: it is walked and its songs are
\* inserted, or an entry of it cannot be read, or the insert fails.
Outcomes == {"ok", "unreadable", "insert fails"}

\* One turn of the loop of thread i of add_dirs, or its end.
WorkerStepOf(i, outcome) ==
    /\ i \in 1..Len(workers)
    /\ workers[i].status = "running"
    /\ LET w == workers[i]
       IN  IF w.dirs = <<>>
           THEN /\ busy' = FALSE
                /\ workers' = [workers EXCEPT ![i].status = "returned"]
                /\ UNCHANGED <<song_table, scanned>>
           ELSE IF outcome = "unreadable"
           THEN /\ workers' = [workers EXCEPT ![i].status = "panicked"]
                /\ UNCHANGED <<song_table, busy, scanned>>
           ELSE IF Walk(Head(w.dirs)) = <<>>
           THEN /\ busy' = FALSE
                /\ workers' = [workers EXCEPT ![i].status = "returned"]
                /\ UNCHANGED <<song_table, scanned>>
           ELSE IF outcome = "insert fails"
           THEN /\ workers' = [workers EXCEPT ![i].status = "panicked"]
                /\ UNCHANGED <<song_table, busy, scanned>>
           ELSE /\ song_table' = InsertOrIgnore(song_table, Walk(Head(w.dirs)), Head(w.dirs))
                /\ scanned' = scanned \cup {Head(w.dirs)}
                /\ workers' = [workers EXCEPT ![i].dirs = Tail(w.dirs)]
                /\ UNCHANGED busy
    /\ UNCHANGED <<declared, undeclared>>
    /\ DbFrame

WorkerStep == \E i \in 1..MaxScans, outcome \in Outcomes : WorkerStepOf(i, outcome)

DbNext == AddDirs \/ SyncDatabase \/ WorkerStep

\* Database::new on a new file
DbInit ==
    /\ song_table = <<>>
    /\ busy = FALSE
    /\ workers = <<>>
    /\ declared = None
    /\ scanned = {}
    /\ undeclared = {}

-----------------------------------------------------------------------------
\* Song (gonk-test-database/src/main.rs): strings and records are sequences
\* of bytes.

TEXT_LEN == 510
SONG_LEN == TEXT_LEN + 2

\* n bytes of the character ch
Str(n, ch) == [i \in 1..n |-> ch]

\* text[start..start + src.len()].copy_from_slice(&src), the positions counted
\* from 0: [text, panic], the range being checked against the length of text
CopyFromSlice(t, start, src) ==
    IF t.panic \/ start + Len(src) > TEXT_LEN THEN [t EXCEPT !.panic = TRUE]
    ELSE [t EXCEPT !.text = [i \in 1..TEXT_LEN |->
                                IF i > start /\ i <= start + Len(src)
                                THEN src[i - start] ELSE t.text[i]]]

\* Song::new(name, album, artist, path, number, disc): the Song, or a panic
SongNew(name, album, artist, path, number, disc) ==
    IF Len(name) + Len(album) + Len(artist) + Len(path) > TEXT_LEN
    THEN [text |-> <<>>, number |-> number, disc |-> disc, panic |-> TRUE]
    ELSE
    LET n == name \o <<0>>
        al == album \o <<0>>
        ar == artist \o <<0>>
        pa == path \o <<0>>
        name_pos == Len(n)
        album_pos == name_pos + Len(al)
        artist_pos == album_pos + Len(ar)
        t0 == [text |-> Str(TEXT_LEN, 0), panic |-> FALSE]
        t1 == CopyFromSlice(t0, 0, n)
        t2 == CopyFromSlice(t1, name_pos, al)
        t3 == CopyFromSlice(t2, album_pos, ar)
        t4 == CopyFromSlice(t3, artist_pos, pa)
    IN  [text |-> t4.text, number |-> number, disc |-> disc, panic |-> t4.panic]

\* into_bytes()
IntoBytes(s) == s.text \o <<s.number, s.disc>>

\* Song::from(bytes)
SongFrom(b) ==
    [text |-> SubSeq(b, 1, TEXT_LEN), number |-> b[SONG_LEN - 1], disc |-> b[SONG_LEN],
     panic |-> FALSE]

\* The position, counted from 0, of the first NUL of text at or after start,
\* or TEXT_LEN if there is none.
NulFrom(text, start) ==
    LET at == {i \in start..(TEXT_LEN - 1) : text[i + 1] = 0}
    IN  IF at = {} THEN TEXT_LEN ELSE CHOOSE i \in at : \A j \in at : i <= j

\* &text[from..to], None where the accessor panics
Slice(text, from, to) ==
    IF to >= TEXT_LEN THEN None ELSE Some(SubSeq(text, from + 1, to))

\* name(text), album(text), artist(text), path(text)
NameOf(text) == Slice(text, 0, NulFrom(text, 0))
AlbumOf(text) ==
    LET first == NulFrom(text, 0)
    IN  IF first >= TEXT_LEN THEN None
        ELSE Slice(text, first + 1, NulFrom(text, first + 1))
ArtistOf(text) ==
    LET first == NulFrom(text, 0)
        second == IF first >= TEXT_LEN THEN TEXT_LEN ELSE NulFrom(text, first + 1)
    IN  IF second >= TEXT_LEN THEN None
        ELSE Slice(text, second + 1, NulFrom(text, second + 1))
PathOf(text) ==
    LET first == NulFrom(text, 0)
        second == IF first >= TEXT_LEN THEN TEXT_LEN ELSE NulFrom(text, first + 1)
        third == IF second >= TEXT_LEN THEN TEXT_LEN ELSE NulFrom(text, second + 1)
    IN  IF third >= TEXT_LEN THEN None
        ELSE Slice(text, third + 1, NulFrom(text, third + 1))

\* The strings Song::new is handed: short ones, and paths that bring the text
\* to its budget.
Texts == {<<>>, Str(1, 97), <<98, 99>>}
PathTexts == {Str(n, 120) : n \in {0, 3, 503, 506, 507, 510, 511}}
Numbers == {<<1, 1>>, <<255, 0>>}

\* The steps on the record leave the rest alone.
RecFrame == UNCHANGED <<playerVars, srcVars, dbVars, plVars, uiVars, moreVars>>

\* Song::new is called with args.
SongNewCall ==
    /\ ~panicked
    /\ made = None
    /\ LET s == SongNew(args.name, args.album, args.artist, args.path,
                        args.number, args.disc)
       IN  /\ panicked' = s.panic
           /\ made' = IF s.panic THEN None ELSE Some(s)
    /\ UNCHANGED <<args, bytes, read_back>>
    /\ RecFrame

\* into_bytes is called on the Song made.
IntoBytesCall ==
    /\ made # None
    /\ bytes = None
    /\ bytes' = Some(IntoBytes(Get(made)))
    /\ UNCHANGED <<args, made, read_back, panicked>>
    /\ RecFrame

\* Song::from is called on the bytes.
SongFromCall ==
    /\ bytes # None
    /\ read_back = None
    /\ read_back' = Some(SongFrom(Get(bytes)))
    /\ UNCHANGED <<args, made, bytes, panicked>>
    /\ RecFrame

RecNext == SongNewCall \/ IntoBytesCall \/ SongFromCall

\* The arguments are a, nothing has been called yet.
RecIs(a) ==
    /\ args = a
    /\ made = None
    /\ bytes = None
    /\ read_back = None

RecInit ==
    \E name \in Texts, album \in Texts, artist \in Texts, path \in PathTexts,
       nd \in Numbers :
        RecIs([name |-> name, album |-> album, artist |-> artist, path |-> path,
               number |-> nd[1], disc |-> nd[2]])

\* No record is being made.
RecAtRest ==
    RecIs([name |-> <<>>, album |-> <<>>, artist |-> <<>>, path |-> <<>>,
           number |-> 1, disc |-> 1])

-----------------------------------------------------------------------------
\* RawPlaylist (gonk-database/src/playlist.rs)

\* (n as u16).to_le_bytes()
U16LeBytes(n) == <<(n % 65536) % 256, (n % 65536) \div 256>>

\* u16::from_le_bytes(b)
U16FromLeBytes(b) == b[1] + 256 * b[2]

\* The bytes of the records, one after the other.
RECURSIVE Records(_)
Records(list) ==
    IF list = <<>> THEN <<>> ELSE IntoBytes(Head(list)) \o Records(Tail(list))

\* save(): the bytes written to the file
Save(pl) == U16LeBytes(Len(pl.name)) \o pl.name \o Records(pl.songs)

\* while let Some(bytes) = bytes.get(i..i + SONG_LEN), i counted from 0
RECURSIVE ReadSongs(_, _)
ReadSongs(b, i) ==
    IF i + SONG_LEN > Len(b) THEN <<>>
    ELSE <<SongFrom(SubSeq(b, i + 1, i + SONG_LEN))>> \o ReadSongs(b, i + SONG_LEN)

\* RawPlaylist::from(bytes)
PlaylistFrom(b) ==
    IF Len(b) < 2 \/ Len(b) < U16FromLeBytes(b) + 2
    THEN [name |-> <<>>, songs |-> <<>>, panic |-> TRUE]
    ELSE [name |-> SubSeq(b, 3, U16FromLeBytes(b) + 2),
          songs |-> ReadSongs(b, U16FromLeBytes(b) + 2 + 1),
          panic |-> FALSE]

\* The names and the songs of the playlists saved.
PlaylistNames == {<<>>, <<112>>, <<112, 108>>, <<0, 255, 112>>}
PlaylistSongs ==
    {SongNew(Str(1, 97), <<>>, <<>>, Str(3, 120), 1, 1),
     SongNew(<<98, 99>>, Str(1, 97), Str(1, 97), Str(3, 120), 255, 0),
     SongNew(<<>>, <<>>, <<>>, <<>>, 0, 255)}

PlFrame == UNCHANGED <<playerVars, srcVars, dbVars, recVars, uiVars, panicked, moreVars>>

\* save() is called.
SaveCall ==
    /\ file = None
    /\ file' = Some(Save(playlist))
    /\ UNCHANGED <<playlist, opened>>
    /\ PlFrame

\* RawPlaylist::from is called on the bytes of the file.
PlaylistFromCall ==
    /\ file # None
    /\ opened = None
    /\ opened' = Some(PlaylistFrom(Get(file)))
    /\ UNCHANGED <<playlist, file>>
    /\ PlFrame

PlNext == SaveCall \/ PlaylistFromCall

\* The playlist is pl, not saved yet.
PlIs(pl) ==
    /\ playlist = pl
    /\ file = None
    /\ opened = None

PlInit ==
    \E name \in PlaylistNames,
       list \in UNION {[1..n -> PlaylistSongs] : n \in 0..MaxSongs} :
        PlIs([name |-> name, songs |-> list])

\* No playlist is being saved.
PlAtRest == PlIs([name |-> <<>>, songs |-> <<>>])

-----------------------------------------------------------------------------
\* Playlist (gonk/src/playlist.rs), as a value w = [ui, disk, queued, emptied,
\* panic]: the Playlist, the playlist files, the queue on_enter is handed, the
\* name of the playlist whose last song the call removed, and whether the call
\* has panicked.

\* Index::from(data): the first item is selected, if there is one
IndexFrom(data) == [data |-> data, index |-> IF data = <<>> THEN None ELSE Some(0)]

\* Index::remove_and_move(i): removes the item and moves the selected position
IndexRemoveAndMove(ix, i) ==
    LET data == RemoveAt(ix.data, i)
        n == Len(data)
    IN  [data |-> data,
         index |-> IF n = 0 \/ ix.index = None THEN None
                   ELSE IF i = Get(ix.index) /\ i = 0 THEN Some(0)
                   ELSE IF i = Get(ix.index) /\ i = n THEN Some(n - 1)
                   ELSE IF i < Get(ix.index) THEN Some(Get(ix.index) - 1)
                   ELSE ix.index]

\* gonk_core::Playlist::new(name, songs)
PlaylistNew(name, list) == [name |-> name, songs |-> IndexFrom(list)]

\* gonk_core::Playlist::save(): the file of the playlist holds its songs
SaveTo(d, pl) ==
    [n \in DOMAIN d \cup {pl.name} |-> IF n = pl.name THEN pl.songs.data ELSE d[n]]

\* gonk_core::Playlist::delete(): the file of the playlist is removed
DeleteFrom(d, pl) == [n \in DOMAIN d \ {pl.name} |-> d[n]]

\* str::trim()
RECURSIVE TrimStart(_)
TrimStart(str) ==
    IF str # <<>> /\ Head(str) = " " THEN TrimStart(Tail(str)) ELSE str
RECURSIVE TrimEnd(_)
TrimEnd(str) ==
    IF str # <<>> /\ str[Len(str)] = " "
    THEN TrimEnd(SubSeq(str, 1, Len(str) - 1)) ELSE str
Trim(str) == TrimEnd(TrimStart(str))

\* lists.selected(): the position, from 1, of the selected playlist, or 0
SelectedList(w) ==
    IF IndexSelected(w.ui.lists) = None THEN 0 ELSE Get(w.ui.lists.index) + 1

\* The songs of the selected playlist become what f makes of them.
MoveSongs(w, moved) ==
    [w EXCEPT !.ui.lists.data[SelectedList(w)].songs = moved]

\* up(playlist)
Up(w) ==
    IF w.ui.delete THEN w
    ELSE IF w.ui.mode = "Playlist" THEN [w EXCEPT !.ui.lists = IndexUp(w.ui.lists)]
    ELSE IF w.ui.mode = "Song" /\ SelectedList(w) # 0
    THEN MoveSongs(w, IndexUp(w.ui.lists.data[SelectedList(w)].songs))
    ELSE w

\* down(playlist)
Down(w) ==
    IF w.ui.delete THEN w
    ELSE IF w.ui.mode = "Playlist" THEN [w EXCEPT !.ui.lists = IndexDown(w.ui.lists)]
    ELSE IF w.ui.mode = "Song" /\ SelectedList(w) # 0
    THEN MoveSongs(w, IndexDown(w.ui.lists.data[SelectedList(w)].songs))
    ELSE w

\* left(playlist)
Left(w) ==
    IF w.ui.delete THEN [w EXCEPT !.ui.yes = TRUE]
    ELSE IF w.ui.mode = "Song" THEN [w EXCEPT !.ui.mode = "Playlist"]
    ELSE w

\* right(playlist)
Right(w) ==
    IF w.ui.delete THEN [w EXCEPT !.ui.yes = FALSE]
    ELSE IF w.ui.mode = "Playlist" /\ SelectedList(w) # 0
    THEN [w EXCEPT !.ui.mode = "Song"]
    ELSE w

\* draw(playlist, .., mouse): a click on the songs or on the playlists
Click(w, on) == [w EXCEPT !.ui.mode = on]

\* delete_song(playlist) that keeps a playlist without songs
PlaylistDeleteSongKeep(w) ==
    IF w.ui.lists.index = None THEN w
    ELSE
    LET i == Get(w.ui.lists.index)
    IN  IF i >= Len(w.ui.lists.data) THEN [w EXCEPT !.panic = TRUE]
        ELSE
        LET selected == w.ui.lists.data[i + 1]
        IN  IF selected.songs.index = None THEN [w EXCEPT !.ui.delete = FALSE]
            ELSE
            LET j == Get(selected.songs.index)
            IN  IF j >= Len(selected.songs.data) THEN [w EXCEPT !.panic = TRUE]
                ELSE
                LET removed == [selected EXCEPT !.songs = IndexRemove(selected.songs, j)]
                    saved == SaveTo(w.disk, removed)
                IN  [w EXCEPT !.ui.lists.data[i + 1] = removed,
                              !.ui.delete = FALSE,
                              !.disk = saved]

\* delete_song(playlist)
PlaylistDeleteSong(w) ==
    IF w.ui.lists.index = None THEN w
    ELSE
    LET i == Get(w.ui.lists.index)
    IN  IF i >= Len(w.ui.lists.data) THEN [w EXCEPT !.panic = TRUE]
        ELSE
        LET selected == w.ui.lists.data[i + 1]
        IN  IF selected.songs.index = None THEN [w EXCEPT !.ui.delete = FALSE]
            ELSE
            LET j == Get(selected.songs.index)
            IN  IF j >= Len(selected.songs.data) THEN [w EXCEPT !.panic = TRUE]
                ELSE
                LET removed == [selected EXCEPT !.songs = IndexRemove(selected.songs, j)]
                    saved == SaveTo(w.disk, removed)
                IN  IF removed.songs.data = <<>>
                    THEN [w EXCEPT !.ui.lists = IndexRemoveAndMove(w.ui.lists, i),
                                   !.emptied = Some(removed.name),
                                   !.ui.mode = "Playlist",
                                   !.ui.delete = FALSE,
                                   !.disk = DeleteFrom(saved, removed)]
                    ELSE [w EXCEPT !.ui.lists.data[i + 1] = removed,
                                   !.ui.delete = FALSE,
                                   !.disk = saved]

\* delete_playlist(playlist)
DeletePlaylist(w) ==
    IF w.ui.lists.index = None THEN w
    ELSE
    LET index == Get(w.ui.lists.index)
    IN  IF index >= Len(w.ui.lists.data) THEN [w EXCEPT !.panic = TRUE]
        ELSE [w EXCEPT !.ui.lists = IndexRemoveAndMove(w.ui.lists, index),
                       !.ui.delete = FALSE,
                       !.disk = DeleteFrom(w.disk, w.ui.lists.data[index + 1])]

\* delete(playlist, shift)
Delete(w, shift) ==
    IF w.ui.mode = "Playlist" /\ shift THEN DeletePlaylist(w)
    ELSE IF w.ui.mode = "Song" /\ shift THEN PlaylistDeleteSong(w)
    ELSE IF w.ui.mode \in {"Playlist", "Song"} THEN [w EXCEPT !.ui.delete = TRUE]
    ELSE w

\* The position, from 0, of the first playlist called name, if there is one.
PositionOf(lists, name) ==
    LET at == {k \in 1..Len(lists.data) : lists.data[k].name = name}
    IN  IF at = {} THEN None ELSE Some((CHOOSE k \in at : \A l \in at : k <= l) - 1)

\* The popup is confirmed with songs in the buffer.
OnEnterPopup(w) ==
    LET name == Trim(w.ui.search_query)
        pos == PositionOf(w.ui.lists, name)
        taken == w.ui.song_buffer
        count == Len(w.ui.lists.data)
        extended == [w.ui.lists.data[Get(pos) + 1] EXCEPT
                        !.songs = IndexSelect(IndexExtend(@, taken), Some(0))]
        created == PlaylistNew(name, taken)
    IN  IF pos # None
        THEN [w EXCEPT !.ui.song_buffer = <<>>,
                       !.ui.lists = IndexSelect(
                           [@ EXCEPT !.data[Get(pos) + 1] = extended], pos),
                       !.disk = SaveTo(@, extended),
                       !.ui.search_query = <<>>,
                       !.ui.mode = "Playlist"]
        ELSE [w EXCEPT !.ui.song_buffer = <<>>,
                       !.ui.lists = IndexSelect(
                           [@ EXCEPT !.data = Append(@, created)], Some(count)),
                       !.disk = SaveTo(@, created),
                       !.ui.search_query = <<>>,
                       !.ui.mode = "Playlist"]

\* on_enter(playlist, songs)
OnEnter(w) ==
    IF w.ui.delete /\ ~w.ui.yes
    THEN [w EXCEPT !.ui.yes = TRUE, !.ui.delete = FALSE]
    ELSE IF w.ui.mode = "Playlist" /\ w.ui.delete THEN DeletePlaylist(w)
    ELSE IF w.ui.mode = "Song" /\ w.ui.delete THEN PlaylistDeleteSong(w)
    ELSE IF w.ui.mode = "Playlist"
    THEN IF SelectedList(w) # 0
         THEN [w EXCEPT !.queued = @ \o w.ui.lists.data[SelectedList(w)].songs.data]
         ELSE w
    ELSE IF w.ui.mode = "Song"
    THEN IF SelectedList(w) # 0
            /\ IndexSelected(w.ui.lists.data[SelectedList(w)].songs) # None
         THEN [w EXCEPT !.queued = Append(@,
                   Get(IndexSelected(w.ui.lists.data[SelectedList(w)].songs)))]
         ELSE w
    ELSE IF w.ui.song_buffer # <<>> THEN OnEnterPopup(w)
    ELSE w

\* on_backspace(playlist, control)
OnBackspace(w, control) ==
    IF w.ui.mode = "Popup"
    THEN [w EXCEPT !.ui.changed = TRUE,
                   !.ui.search_query =
                       IF control \/ @ = <<>> THEN <<>> ELSE SubSeq(@, 1, Len(@) - 1)]
    ELSE Left(w)

\* add(playlist, songs)
Add(w, list) == [w EXCEPT !.ui.song_buffer = list, !.ui.mode = "Popup"]

\* A character typed while the popup is open.
Type(w, c) ==
    IF w.ui.mode = "Popup"
    THEN [w EXCEPT !.ui.changed = TRUE, !.ui.search_query = Append(@, c)]
    ELSE w

\* The characters typed, what they are typed towards, and the songs add is
\* handed.
Chars == {"a", " "}
Queries == {<<"a", " ">>, <<" ", "a">>}
Buffers == {<<>>, <<"A">>}

\* The Playlist, the files and the queue as a value.
World ==
    [ui |-> ui, disk |-> disk, queued |-> queued, emptied |-> None, panic |-> FALSE]

\* The value stays within the bounds.
Within(w) ==
    /\ \E query \in Queries :
          /\ Len(w.ui.search_query) <= Len(query)
          /\ w.ui.search_query = SubSeq(query, 1, Len(w.ui.search_query))
    /\ Len(w.queued) <= MaxQueued
    /\ \A k \in 1..Len(w.ui.lists.data) :
          Len(w.ui.lists.data[k].songs.data) <= MaxListSongs

\* The call that makes w of the state has returned or panicked.
UiStep(w) ==
    /\ ~panicked
    /\ Within(w)
    /\ ui' = w.ui
    /\ disk' = w.disk
    /\ queued' = w.queued
    /\ emptied' = w.emptied
    /\ panicked' = w.panic
    /\ UNCHANGED <<playerVars, srcVars, dbVars, recVars, plVars, moreVars>>

UpCall == UiStep(Up(World))
DownCall == UiStep(Down(World))
LeftCall == UiStep(Left(World))
RightCall == UiStep(Right(World))
ClickCall == \E on \in {"Song", "Playlist"} : UiStep(Click(World, on))
DeleteCall == \E shift \in BOOLEAN : UiStep(Delete(World, shift))
OnEnterCall == UiStep(OnEnter(World))
OnBackspaceCall == \E control \in BOOLEAN : UiStep(OnBackspace(World, control))
AddCall == \E list \in Buffers : UiStep(Add(World, list))
TypeCall == \E c \in Chars : UiStep(Type(World, c))

UiNext ==
    \/ UpCall \/ DownCall \/ LeftCall \/ RightCall \/ ClickCall
    \/ DeleteCall \/ OnEnterCall \/ OnBackspaceCall \/ AddCall \/ TypeCall

\* Playlist::new() where no playlist has been saved yet
UiInit ==
    /\ ui = [mode |-> "Playlist", lists |-> IndexFrom(<<>>), song_buffer |-> <<>>,
             search_query |-> <<>>, changed |-> FALSE, delete |-> FALSE,
             yes |-> TRUE]
    /\ disk = <<>>
    /\ queued = <<>>
    /\ emptied = None

-----------------------------------------------------------------------------
\* Pausable (gonk-player/src/source/pausable.rs)

\* The most inner samples a source starts with, the most channels it has and
\* the most samples next() is asked for.
MaxInner == 3
MaxChannels == 2
MaxNext == 6

\* The inner sources: channels channels, and n samples left, numbered from 1 so
\* that none of them is the zero value a paused next() returns.
Sources ==
    {[samples |-> [i \in 1..n |-> i], channels |-> ch] :
        n \in 0..MaxInner, ch \in 1..MaxChannels}

\* pausable(source, paused)
Pausable(source, paused) ==
    [input |-> source,
     paused_channels |-> IF paused THEN Some(source.channels) ELSE None,
     remaining_paused_samples |-> 0]

\* set_paused(paused)
SetPaused(p, paused) ==
    IF p.paused_channels = None /\ paused
    THEN [p EXCEPT !.paused_channels = Some(p.input.channels)]
    ELSE IF p.paused_channels # None /\ ~paused
    THEN [p EXCEPT !.paused_channels = None]
    ELSE p

\* next() that starts a run of paused_channels + 1 zeros
PausableNextLong(p) ==
    IF p.remaining_paused_samples > 0
    THEN [p |-> [p EXCEPT !.remaining_paused_samples = @ - 1], result |-> Some(0)]
    ELSE IF p.paused_channels # None
    THEN [p |-> [p EXCEPT !.remaining_paused_samples = Get(p.paused_channels)],
          result |-> Some(0)]
    ELSE IF p.input.samples = <<>> THEN [p |-> p, result |-> None]
    ELSE [p |-> [p EXCEPT !.input.samples = Tail(@)],
          result |-> Some(Head(p.input.samples))]

\* next(): the Pausable after the call and what the call returns. A source has
\* at least one channel, so that paused_channels - 1 overflows in no build.
PausableNext(p) ==
    IF p.remaining_paused_samples > 0
    THEN [p |-> [p EXCEPT !.remaining_paused_samples = @ - 1], result |-> Some(0)]
    ELSE IF p.paused_channels # None
    THEN [p |-> [p EXCEPT !.remaining_paused_samples =
                              U16(Get(p.paused_channels) - 1, "release").value],
          result |-> Some(0)]
    ELSE IF p.input.samples = <<>> THEN [p |-> p, result |-> None]
    ELSE [p |-> [p EXCEPT !.input.samples = Tail(@)],
          result |-> Some(Head(p.input.samples))]

PauseFrame ==
    UNCHANGED <<playerVars, srcVars, dbVars, recVars, plVars, uiVars, panicked,
                gainVars, searchVars>>

\* pausable(source, paused) is called.
PausableCall ==
    /\ pausable = None
    /\ \E source \in Sources, paused \in BOOLEAN :
           pausable' = Some(Pausable(source, paused))
    /\ output' = <<>>
    /\ PauseFrame

\* set_paused(paused) is called.
SetPausedCall ==
    /\ pausable # None
    /\ \E paused \in BOOLEAN : pausable' = Some(SetPaused(Get(pausable), paused))
    /\ UNCHANGED output
    /\ PauseFrame

\* next() is called.
PausableNextCall ==
    /\ pausable # None
    /\ Len(output) < MaxNext
    /\ LET r == PausableNext(Get(pausable)) IN
           /\ pausable' = Some(r.p)
           /\ output' = IF r.result = None THEN output
                         ELSE Append(output, Get(r.result))
    /\ PauseFrame

PauseNext == PausableCall \/ SetPausedCall \/ PausableNextCall

\* No Pausable has been made yet.
PauseInit ==
    /\ pausable = None
    /\ output = <<>>

-----------------------------------------------------------------------------
\* Search (gonk/src/app/search.rs)

\* What get_all_songs, get_all_albums and get_all_artists return for the
\* libraries the search is built on: none; a song, its album and its artist of
\* one name; a song without a name by an artist in capitals; two songs whose
\* names are close to each other.
Libraries ==
    {[rows |-> <<>>, albums |-> <<>>, artists |-> <<>>],
     [rows |-> <<[id |-> 1, name |-> <<"a">>, album |-> <<"a">>, artist |-> <<"a">>]>>,
      albums |-> <<[name |-> <<"a">>, artist |-> <<"a">>]>>,
      artists |-> << <<"a">> >>],
     [rows |-> <<[id |-> 1, name |-> <<>>, album |-> <<"a", "b">>, artist |-> <<"B">>]>>,
      albums |-> <<[name |-> <<"a", "b">>, artist |-> <<"B">>]>>,
      artists |-> << <<"B">> >>],
     [rows |-> <<[id |-> 1, name |-> <<"a", "b">>, album |-> <<"b">>, artist |-> <<"A">>],
                 [id |-> 2, name |-> <<"a">>, album |-> <<"b">>, artist |-> <<"A">>]>>,
      albums |-> <<[name |-> <<"b">>, artist |-> <<"A">>]>>,
      artists |-> << <<"A">> >>]}

\* The queries that are typed, key by key.
Typed == {<<"a", "b">>, <<"B">>}

\* The least element of a set of numbers that is not empty.
SetMin(set) == CHOOSE h \in set : \A k \in set : h <= k

\* to_lowercase() of a string of the letters in use
ToLowercase(str) ==
    [i \in 1..Len(str) |->
        IF str[i] = "A" THEN "a" ELSE IF str[i] = "B" THEN "b" ELSE str[i]]

\* The order of the letters in use as bytes.
ByteOf(c) == CASE c = "A" -> 65 [] c = "B" -> 66 [] c = "a" -> 97 [] c = "b" -> 98

\* x <= y for strings
RECURSIVE StrLeq(_, _)
StrLeq(x, y) ==
    IF x = <<>> THEN TRUE
    ELSE IF y = <<>> THEN FALSE
    ELSE IF Head(x) # Head(y) THEN ByteOf(Head(x)) < ByteOf(Head(y))
    ELSE StrLeq(Tail(x), Tail(y))

\* A step of the loop of strsim's jaro: the element of a at i has the
\* elements of b at hits to take, and takes the first of them; a match before
\* the previous one counts as a transposition.
JaroTake(st, hits) ==
    IF hits = {} THEN st
    ELSE [b_consumed |-> st.b_consumed \cup {SetMin(hits)},
          matches |-> st.matches + 1,
          transpositions |->
              st.transpositions + (IF SetMin(hits) < st.b_match_index THEN 1 ELSE 0),
          b_match_index |-> SetMin(hits)]

\* The positions of b within search_range of i.
JaroBounds(i, search_range, blen) ==
    (IF i > search_range THEN i - search_range ELSE 0)
        .. (IF blen - 1 < i + search_range THEN blen - 1 ELSE i + search_range)

\* max(a_len, b_len) / 2 - 1
SearchRange(alen, blen) == ((IF alen > blen THEN alen ELSE blen) \div 2) - 1

\* The loop of strsim's jaro over the elements of a from position i on: every
\* element of a takes the first element of b within search_range of its own
\* position that equals it and is not consumed yet.
RECURSIVE JaroScan(_, _, _, _)
JaroScan(a, b, i, st) ==
    IF i = Len(a) THEN st
    ELSE JaroScan(a, b, i + 1,
                  JaroTake(st, {j \in JaroBounds(i, SearchRange(Len(a), Len(b)), Len(b)) :
                                   a[i + 1] = b[j + 1] /\ j \notin st.b_consumed}))

\* The result of strsim's jaro for st.matches matches, as a fraction
JaroOf(st, alen, blen) ==
    IF st.matches = 0 THEN <<0, 1>>
    ELSE <<st.matches * st.matches * blen + st.matches * st.matches * alen
               + (st.matches - st.transpositions) * alen * blen,
           3 * alen * blen * st.matches>>

\* strsim::jaro(a, b) as the fraction <<numerator, denominator>>
Jaro(a, b) ==
    IF Len(a) = 0 /\ Len(b) = 0 THEN <<1, 1>>
    ELSE IF Len(a) = 0 \/ Len(b) = 0 THEN <<0, 1>>
    ELSE IF Len(a) = 1 /\ Len(b) = 1 THEN (IF a = b THEN <<1, 1>> ELSE <<0, 1>>)
    ELSE JaroOf(JaroScan(a, b, 0, [b_consumed |-> {}, matches |-> 0,
                                   transpositions |-> 0, b_match_index |-> 0]),
                Len(a), Len(b))

\* The length of the prefix a and b have in common.
RECURSIVE PrefixLength(_, _)
PrefixLength(a, b) ==
    IF a = <<>> \/ b = <<>> \/ Head(a) # Head(b) THEN 0
    ELSE 1 + PrefixLength(Tail(a), Tail(b))

\* strsim::jaro_winkler(a, b) as a fraction: the strings here are shorter than
\* the four characters some versions stop the prefix at.
Winkler(jaro, prefix) ==
    IF 10 * jaro[1] + prefix * (jaro[2] - jaro[1]) <= 10 * jaro[2]
    THEN <<10 * jaro[1] + prefix * (jaro[2] - jaro[1]), 10 * jaro[2]>>
    ELSE <<1, 1>>

JaroWinkler(a, b) == Winkler(Jaro(a, b), PrefixLength(a, b))

\* x > y for fractions
Exceeds(x, y) == x[1] * y[2] > y[1] * x[2]

\* query.is_empty() && results.len() < 40
Seeded == 40

\* The threshold of acc > 0.75
Threshold == <<3, 4>>

\* The loop of update_search over the items of the cache that are left: found
\* is the list of (item, acc) so far.
Matched(found, x, acc) ==
    IF Exceeds(acc, Threshold) THEN Append(found, <<x, acc>>) ELSE found

\* The body of the loop for the item x of similarity acc
Push(found, q, x, acc) ==
    Matched(IF q = <<>> /\ Len(found) < Seeded THEN Append(found, <<x, acc>>)
            ELSE found,
            x, acc)

RECURSIVE Collect(_, _, _)
Collect(left, q, found) ==
    IF left = <<>> THEN found
    ELSE Collect(Tail(left), q,
                 Push(found, q, Head(left),
                      JaroWinkler(q, ToLowercase(Head(left).name))))

\* sorted with e put behind every element that b.partial_cmp(a) does not put
\* behind it: the sort is stable.
RECURSIVE InsertByAcc(_, _)
InsertByAcc(sorted, e) ==
    IF sorted = <<>> THEN <<e>>
    ELSE IF Exceeds(e[2], Head(sorted)[2]) THEN <<e>> \o sorted
    ELSE <<Head(sorted)>> \o InsertByAcc(Tail(sorted), e)

\* results.sort_by(|(_, a), (_, b)| b.partial_cmp(a).unwrap())
RECURSIVE SortByAcc(_)
SortByAcc(found) ==
    IF found = <<>> THEN <<>>
    ELSE InsertByAcc(SortByAcc(SubSeq(found, 1, Len(found) - 1)),
                     found[Len(found)])

\* What update_search makes of the cache and the query when it searches.
Items(sorted) == [i \in 1..Len(sorted) |-> sorted[i][1]]

Found(cache, query) == Items(SortByAcc(Collect(cache, ToLowercase(query), <<>>)))

\* update_engine() over the library t
UpdateEngine(s, t) ==
    [s EXCEPT !.cache =
        [i \in 1..Len(t.rows) |->
            [kind |-> "Song", name |-> t.rows[i].name, album |-> t.rows[i].album,
             artist |-> t.rows[i].artist, id |-> t.rows[i].id]]
        \o [i \in 1..Len(t.albums) |->
               [kind |-> "Album", name |-> t.albums[i].name,
                artist |-> t.albums[i].artist]]
        \o [i \in 1..Len(t.artists) |-> [kind |-> "Artist", name |-> t.artists[i]]]]

\* update_search()
UpdateSearch(s) ==
    IF s.query = s.prev_query THEN s
    ELSE [s EXCEPT !.prev_query = s.query,
                   !.results.data = Found(s.cache, s.query)]

\* Search::new(colors) over the library t
SearchNew(t) ==
    UpdateSearch(UpdateEngine([cache |-> <<>>, query |-> <<>>, prev_query |-> <<>>,
                               mode |-> "Search", results |-> IndexDefault], t))

\* on_key(c)
SearchOnKey(s, c) ==
    IF s.mode = "Search"
    THEN [s EXCEPT !.prev_query = s.query, !.query = Append(s.query, c)]
    ELSE IF c = "k" THEN [s EXCEPT !.results = IndexUp(s.results)]
    ELSE IF c = "j" THEN [s EXCEPT !.results = IndexDown(s.results)]
    ELSE s

\* on_backspace(modifiers): control is whether modifiers is CONTROL
SearchOnBackspace(s, control) ==
    IF s.mode = "Search"
    THEN IF control THEN [s EXCEPT !.query = <<>>]
         ELSE [s EXCEPT !.query = SubSeq(s.query, 1, Len(s.query) - 1)]
    ELSE [s EXCEPT !.results.index = None, !.mode = "Search"]

\* State::NeedsUpdate of the main loop, the library being t
NeedsUpdate(s, t) == UpdateSearch(UpdateEngine(s, t))

SearchFrame ==
    UNCHANGED <<playerVars, srcVars, dbVars, recVars, plVars, uiVars, panicked,
                pauseVars, gainVars>>

\* Search::new is called.
SearchNewCall ==
    /\ search = None
    /\ \E t \in Libraries : search' = Some(SearchNew(t))
    /\ SearchFrame

\* on_key(c) is called with the next letter of one of the queries.
SearchOnKeyCall ==
    /\ search # None
    /\ \E c \in {"a", "b", "B"} :
          /\ \E typed \in Typed :
                /\ Len(Get(search).query) < Len(typed)
                /\ Append(Get(search).query, c)
                       = SubSeq(typed, 1, Len(Get(search).query) + 1)
          /\ search' = Some(SearchOnKey(Get(search), c))
    /\ SearchFrame

\* on_backspace(modifiers) is called.
SearchOnBackspaceCall ==
    /\ search # None
    /\ \E control \in BOOLEAN :
          search' = Some(SearchOnBackspace(Get(search), control))
    /\ SearchFrame

\* update_search() is called.
UpdateSearchCall ==
    /\ search # None
    /\ search' = Some(UpdateSearch(Get(search)))
    /\ SearchFrame

\* The database reports NeedsUpdate.
NeedsUpdateCall ==
    /\ search # None
    /\ \E t \in Libraries : search' = Some(NeedsUpdate(Get(search), t))
    /\ SearchFrame

SearchNext ==
    \/ SearchNewCall \/ SearchOnKeyCall \/ SearchOnBackspaceCall
    \/ UpdateSearchCall \/ NeedsUpdateCall

\* No Search has been made yet.
SearchInit == search = None

-----------------------------------------------------------------------------
\* The queues Player::new of gonk-player is handed: none, or one saved with a
\* selected song.
SavedQueues == {IndexDefault, IndexNew(<<"A", "B">>, Some(1))}

\* Player::new of rodio
RodioNew ==
    /\ rodio_songs = <<>>
    /\ current_song = None
    /\ sink = SinkNew
    /\ total_duration = None

\* The gonk-player variables hold the Player p.
GonkIs(p) ==
    /\ songs = p.songs /\ state = p.state /\ symphonia = p.symphonia
    /\ elapsed = p.elapsed /\ position = p.position
    /\ loaded = p.loaded /\ calls = p.calls

\* The state after Player::new of the crate in use.
QueueInit ==
    /\ crate \in {"gonk_player", "rodio"}
    /\ panicked = converter.panic
    /\ RodioNew
    /\ IF crate = "gonk_player"
       THEN \E ix \in SavedQueues, e \in 0..MaxElapsed, ok \in BOOLEAN :
                GonkIs(PlayerNew(ix, e, ok))
       ELSE GonkIs(PlayerNew(IndexDefault, 0, TRUE))

\* No Player has been used yet.
QueueAtRest ==
    /\ crate = "rodio"
    /\ songs = IndexDefault
    /\ state = "Stopped"

\* The ring buffer has not been used yet.
RbAtRest == len = 2

QueueNext == GonkNextAction \/ RodioNextAction

\* No song has been queued yet.
QueueEmpty == songs = IndexDefault

\* Nothing but the player is in use.
LaterAtRest == SrcAtRest /\ RecAtRest /\ PlAtRest

Init ==
    /\ SrcInit /\ DbInit /\ RecInit /\ PlInit /\ UiInit
    /\ PauseInit /\ GainInit /\ SearchInit
    /\ RbInit /\ QueueInit /\ VolumeInit

Next ==
    \/ RbNext \/ QueueNext \/ VolumeNext \/ SrcNext \/ DbNext \/ RecNext \/ PlNext
    \/ UiNext \/ PauseNext \/ GainNext \/ SearchNext

\* The player as a whole.
Spec == Init /\ [][Next]_vars

\* The ring buffer with its producer and its consumer.
InitRb == LaterAtRest /\ VolumeAtRest /\ QueueAtRest /\ Init
SpecRb == InitRb /\ [][RbNext]_vars

\* The decode thread and the audio callback both keep running; a spurious
\* wakeup may happen but nothing promises one.
FairSpecRb == SpecRb /\ WF_vars(Producer) /\ WF_vars(Consumer)

\* The queue of a Player under the operations of its interface.
InitQueue == LaterAtRest /\ VolumeAtRest /\ RbAtRest /\ Init
SpecQueue == InitQueue /\ [][QueueNext]_vars

\* The gonk-player Player under its queue operations and the commands of its
\* audio pipeline, restore_song included.
InitLoad == InitQueue /\ crate = "gonk_player"
LoadNext == GonkNextAction \/ GonkRestoreSong
SpecLoad == InitLoad /\ [][LoadNext]_vars

\* The volume of a Player under volume_up and volume_down.
InitVolume == LaterAtRest /\ RbAtRest /\ QueueEmpty /\ Init
SpecVolume == InitVolume /\ [][VolumeNext]_vars

\* The player at rest: its crate is rodio, no song is queued, the volume is
\* the application's.
PlayerAtRest == VolumeAtRest /\ RbAtRest /\ QueueAtRest

\* The sample-rate converter under next() and update().
InitSrc == RecAtRest /\ PlAtRest /\ PlayerAtRest /\ Init
SpecSrc == InitSrc /\ [][SrcNext]_vars

\* The library database under add_dirs, sync_database and their threads.
InitDb == LaterAtRest /\ PlayerAtRest /\ Init
SpecDb == InitDb /\ [][DbNext]_vars

\* A thread that add_dirs has spawned keeps running until it returns or
\* panics.
FairSpecDb == SpecDb /\ WF_vars(WorkerStep)

\* A song record made, turned into bytes and read back.
InitRec == SrcAtRest /\ PlAtRest /\ PlayerAtRest /\ Init
SpecRec == InitRec /\ [][RecNext]_vars

\* A playlist saved and read back.
InitPl == SrcAtRest /\ RecAtRest /\ PlayerAtRest /\ Init
SpecPl == InitPl /\ [][PlNext]_vars

\* The decode thread pushing into the ring buffer while the Player of
\* gonk-player is told to stop, load and restore; nothing pops.
InitCancel == LaterAtRest /\ VolumeAtRest /\ crate = "gonk_player" /\ Init
CancelNext == Producer \/ SpuriousWake \/ GonkClear \/ GonkPlayIndex \/ GonkRestoreSong
SpecCancel == InitCancel /\ [][CancelNext]_vars

\* The playlists of the view created, extended and deleted.
InitUi == LaterAtRest /\ PlayerAtRest /\ Init
SpecUi == InitUi /\ [][UiNext]_vars

\* The gonk-player Player with an empty queue under play_song, restore_song,
\* play and update.
InitGain ==
    LaterAtRest /\ VolumeAtRest /\ RbAtRest /\ QueueEmpty /\ crate = "gonk_player"
        /\ Init
SpecGain == InitGain /\ [][GainNext]_vars

\* The Search under typing, update_search and updates of the library.
InitSearch == LaterAtRest /\ PlayerAtRest /\ Init
SpecSearch == InitSearch /\ [][SearchNext]_vars

\* A Pausable made, paused, resumed and asked for samples.
InitPause == LaterAtRest /\ PlayerAtRest /\ Init
SpecPause == InitPause /\ [][PauseNext]_vars

-----------------------------------------------------------------------------
\* Properties of the ring buffer.

IsPrefix(s, t) == Len(s) <= Len(t) /\ SubSeq(t, 1, Len(s)) = s

\* C1: for Rb::new(C) with C >= 1, completed pushes minus successful pops
\* (counted where write and read are stored) is always in 0..C, and the read
\* and write indices always stay in 0..C.
RbOccupancyInRange ==
    len >= 2 =>
        /\ pushes - pops \in 0..(len - 1)
        /\ write \in 0..(len - 1)
        /\ read \in 0..(len - 1)

\* C1 witness: a buffer of capacity C >= 1 that was filled to C, wrapped its
\* write index and had a value popped.
RbWrappedWitness ==
    /\ len >= 2
    /\ pushes >= len
    /\ pops >= 1
    /\ pushes - pops = len - 1

\* C2: the values pop_front returned as Some are a prefix of the values passed
\* to push_back, in the same order, and no slot is written while it still
\* holds a value the consumer has not read.
RbNoLossNoDup ==
    len >= 2 =>
        /\ IsPrefix(popped, passed)
        /\ ~clobbered

\* C2 witness: the producer had to wait on a full buffer and every value
\* passed to push_back has come out of pop_front.
RbAllPoppedWitness ==
    /\ len >= 2
    /\ Len(passed) = MaxPush
    /\ popped = passed
    /\ pushes > len

\* C3: a producer that waits in push_back while the buffer has free space is
\* eventually woken and completes its push.
RbFullPushReleased ==
    (ppc = "waiting" /\ ~IsFull(write, read)) ~> (ppc = "idle")

\* C4: a pop_front call can always run on without a step of the producer, and
\* a pop_front that finds the buffer empty returns None and leaves the
\* indices and the buffer as they are.
RbConsumerNeverBlocks ==
    /\ ENABLED Consumer
    /\ (cpc = "load_read" /\ IsEmpty(cw, read)) =>
           \A w \in {write}, r \in {read}, b \in {buf} :
               ENABLED (PopLoadRead /\ lastPop' = None /\ write' = w
                        /\ read' = r /\ buf' = b)

-----------------------------------------------------------------------------
\* Properties of the queue.

\* The cursor of a queue is a position of it, and unset when it is empty.
CursorOk(list, cur) ==
    IF Len(list) > 0
    THEN cur # None /\ Get(cur) \in 0..(Len(list) - 1)
    ELSE cur = None

\* C5: after any sequence of queue operations, a non-empty queue has its
\* cursor at one of its positions and an empty queue has no cursor.
QueueCursorInRange ==
    /\ CursorOk(songs.data, songs.index)
    /\ CursorOk(rodio_songs, current_song)

\* C6: whenever the cursor designates a song, the song most recently loaded
\* (the path last passed to play_song / play_selected) is that song.
CursorSongIsLoaded ==
    /\ SongAt(songs.data, songs.index) # None =>
           loaded = SongAt(songs.data, songs.index)
    /\ SongAt(rodio_songs, current_song) # None =>
           loaded = SongAt(rodio_songs, current_song)

\* C7: delete(i) with i == cursor and a queue that stays non-empty: for i = 0
\* the cursor stays 0 and the song now at 0 is loaded; for i the last position
\* the cursor becomes new_len - 1 and the song there is loaded.
DeleteAtCursorExtremes ==
    [][\A i \in 0..MaxQueue :
        /\ \A ok \in BOOLEAN :
            (/\ crate = "gonk_player"
             /\ songs.index = Some(i)
             /\ i < Len(songs.data)
             /\ Len(songs.data) > 1
             /\ i = 0 \/ i = Len(songs.data) - 1
             /\ GonkDeleteIndexAt(i, ok))
            => LET at == IF i = 0 THEN 0 ELSE Len(songs'.data) - 1
               IN  /\ songs'.data = RemoveAt(songs.data, i)
                   /\ songs'.index = Some(at)
                   /\ calls' = 1
                   /\ loaded' = Some(songs'.data[at + 1])
                   /\ state' = "Playing"
                   /\ ok => symphonia' = loaded'
        /\ (/\ crate = "rodio"
            /\ current_song = Some(i)
            /\ Len(rodio_songs) > 1
            /\ i = 0 \/ i = Len(rodio_songs) - 1
            /\ RodioDeleteSongAt(i))
           => LET at == IF i = 0 THEN 0 ELSE Len(rodio_songs') - 1
              IN  /\ rodio_songs' = RemoveAt(rodio_songs, i)
                  /\ current_song' = Some(at)
                  /\ calls' = 1
                  /\ loaded' = Some(rodio_songs'[at + 1])
                  /\ sink'.source = loaded'
      ]_vars

\* C7 witness: a queue of three songs with the cursor on the last one, from
\* which delete_index(2) moves the cursor to 1 and loads the song there.
DeleteLastAtCursorWitness ==
    /\ crate = "gonk_player"
    /\ songs.data = <<"A", "B", "C">>
    /\ songs.index = Some(2)
    /\ loaded = Some("C")
    /\ ENABLED (/\ GonkDeleteIndexAt(2, TRUE)
                /\ songs'.index = Some(1)
                /\ loaded' = Some("B")
                /\ calls' = 1)

\* C8: delete(i) with cursor < i < len leaves the cursor, the song it
\* designates, the loaded decoder, the elapsed time and the player state as
\* they were, and issues no load.
DeleteAfterCursorFrame ==
    [][\A i \in 0..MaxQueue :
        /\ \A ok \in BOOLEAN :
            (/\ GonkDeleteIndexAt(i, ok)
             /\ songs.index # None
             /\ i < Len(songs.data)
             /\ Get(songs.index) < i)
            => /\ songs'.index = songs.index
               /\ SongAt(songs'.data, songs'.index) = SongAt(songs.data, songs.index)
               /\ calls' = 0
               /\ UNCHANGED <<symphonia, elapsed, state, loaded>>
        /\ (/\ RodioDeleteSongAt(i)
            /\ current_song # None
            /\ Get(current_song) < i)
           => /\ current_song' = current_song
              /\ SongAt(rodio_songs', current_song') = SongAt(rodio_songs, current_song)
              /\ calls' = 0
              /\ UNCHANGED <<sink, loaded>>
      ]_vars

\* C9: delete(i) with i < cursor decrements the cursor by one; the cursor
\* designates the same song as before, and the loaded decoder, the elapsed
\* time and the player state are as they were, with no load issued.
DeleteBeforeCursorFrame ==
    [][\A i \in 0..MaxQueue :
        /\ \A ok \in BOOLEAN :
            (/\ GonkDeleteIndexAt(i, ok)
             /\ songs.index # None
             /\ i < Len(songs.data)
             /\ i < Get(songs.index))
            => /\ songs'.index = Some(Get(songs.index) - 1)
               /\ SongAt(songs'.data, songs'.index) = SongAt(songs.data, songs.index)
               /\ calls' = 0
               /\ UNCHANGED <<symphonia, elapsed, state, loaded>>
        /\ (/\ RodioDeleteSongAt(i)
            /\ current_song # None
            /\ i < Get(current_song))
           => /\ current_song' = Some(Get(current_song) - 1)
              /\ SongAt(rodio_songs', current_song') = SongAt(rodio_songs, current_song)
              /\ calls' = 0
              /\ UNCHANGED <<sink, loaded>>
      ]_vars

GonkCleared ==
    /\ songs = IndexDefault
    /\ state = "Stopped"
    /\ symphonia = None

\* The rodio Player is cleared: no songs, no cursor, a new sink with no source.
RodioCleared ==
    /\ rodio_songs = <<>>
    /\ current_song = None
    /\ sink = SinkNew

\* C12: clear(), and delete(i) of the only remaining song, leave the queue
\* empty, the cursor None, the decoder dropped and the player Stopped, from
\* any prior state; an update() of the cleared player loads nothing and moves
\* nothing.
ClearStops ==
    [][/\ (crate = "gonk_player" /\ GonkClear) => GonkCleared' /\ calls' = 0
       /\ \A ok \in BOOLEAN :
            (/\ crate = "gonk_player"
             /\ Len(songs.data) = 1
             /\ GonkDeleteIndexAt(0, ok))
            => GonkCleared' /\ calls' = 0
       /\ (crate = "gonk_player" /\ GonkCleared /\ GonkUpdate)
          => GonkCleared' /\ calls' = 0 /\ UNCHANGED loaded
       /\ (crate = "rodio" /\ RodioClearSongs) => RodioCleared' /\ calls' = 0
       /\ (crate = "rodio" /\ Len(rodio_songs) = 1 /\ RodioDeleteSongAt(0))
          => RodioCleared' /\ calls' = 0
       /\ (crate = "rodio" /\ RodioCleared /\ RodioTick)
          => RodioCleared' /\ calls' = 0 /\ UNCHANGED loaded
      ]_vars

\* C12 witness: a single song that has finished playing, whose delete_index
\* clears the player.
DeleteOnlySongWitness ==
    /\ crate = "gonk_player"
    /\ Len(songs.data) = 1
    /\ songs.index = Some(0)
    /\ state = "Finished"
    /\ symphonia # None
    /\ ENABLED (GonkDeleteIndexAt(0, TRUE) /\ GonkCleared')

\* C13: clear_except_playing() with the cursor set leaves exactly the song
\* that was at the cursor, with the cursor on 0, and the state, the decoder
\* and the elapsed time as they were, without a load; with the cursor unset
\* it changes nothing.
ClearExceptPlayingKeeps ==
    [][(crate = "gonk_player" /\ GonkClearExceptPlaying)
       => /\ ~panicked'
          /\ calls' = 0
          /\ UNCHANGED <<state, symphonia, elapsed, position, loaded>>
          /\ IF songs.index # None
             THEN /\ SongAt(songs.data, songs.index) # None
                  /\ songs' = IndexNew(<<Get(SongAt(songs.data, songs.index))>>,
                                       Some(0))
             ELSE UNCHANGED songs
      ]_vars

\* How often song occurs in list.
Count(list, song) == Cardinality({k \in 1..Len(list) : list[k] = song})

\* C14: randomize() with the cursor set leaves a permutation of the queue
\* (the same songs, each as often as before) with the cursor on a song equal
\* to the one it was on, whatever the shuffle does and also with duplicate
\* songs; the sink and what it plays are as they were.
ShuffleKeepsPlaying ==
    [][(crate = "rodio" /\ current_song # None /\ RodioRandomize)
       => /\ Len(rodio_songs') = Len(rodio_songs)
          /\ \A song \in Songs :
                Count(rodio_songs', song) = Count(rodio_songs, song)
          /\ SongAt(rodio_songs', current_song') # None
          /\ SongAt(rodio_songs', current_song') = SongAt(rodio_songs, current_song)
          /\ calls' = 0
          /\ UNCHANGED <<sink, total_duration, loaded>>
      ]_vars

\* C14 witness: a queue with a duplicate of the playing song, from which a
\* shuffle moves the cursor along with the song.
ShuffleDuplicateWitness ==
    /\ crate = "rodio"
    /\ rodio_songs = <<"A", "B", "A">>
    /\ current_song = Some(0)
    /\ ENABLED (/\ RodioRandomize
                /\ rodio_songs' = <<"B", "A", "A">>
                /\ current_song' = Some(2))

\* C15: an update() that finds the song finished calls next(): with a song
\* after the cursor, the cursor advances by one and that song is loaded and
\* plays (it is Finished again only if it ends within the same update); with
\* the cursor on the last song nothing is loaded, the state ends as Stopped,
\* and a Stopped player stays Stopped on later updates.
FinishedAdvancesOrStops ==
    [][/\ (/\ crate = "gonk_player"
           /\ state = "Finished"
           /\ SongAt(songs.data, songs.index) # None
           /\ GonkUpdate)
          => LET c == Get(songs.index)
             IN  IF c + 1 < Len(songs.data)
                 THEN /\ songs' = [songs EXCEPT !.index = Some(c + 1)]
                      /\ calls' = 1
                      /\ loaded' = Some(songs.data[c + 2])
                      /\ state' \in {"Playing", "Finished"}
                 ELSE /\ calls' = 0
                      /\ UNCHANGED loaded
                      /\ state' = "Stopped"
       /\ (crate = "gonk_player" /\ state = "Stopped" /\ GonkUpdate)
          => state' = "Stopped" /\ calls' = 0
       /\ (/\ crate = "rodio"
           /\ SongAt(rodio_songs, current_song) # None
           /\ PastDuration(RodioSelf, Seconds(sink.elapsed))
           /\ RodioTick)
          => LET c == Get(current_song)
             IN  IF c + 1 < Len(rodio_songs)
                 THEN /\ rodio_songs' = rodio_songs
                      /\ current_song' = Some(c + 1)
                      /\ calls' = 1
                      /\ loaded' = Some(rodio_songs[c + 2])
                      /\ sink' = [SinkNew EXCEPT !.source = loaded']
                 ELSE /\ calls' = 0
                      /\ UNCHANGED <<rodioVars, loaded>>
      ]_vars

\* C16: one end of track advances the cursor once: after an update() that
\* advanced the cursor, the finished condition holds again only if the song
\* now at the cursor has itself come to its end, so that further updates
\* observing the same end of track do not advance again.
AutoAdvanceOnce ==
    [][/\ (/\ crate = "gonk_player"
           /\ state = "Finished"
           /\ GonkUpdate
           /\ songs'.index # songs.index)
          => (state' = "Finished"
                => symphonia' = SongAt(songs'.data, songs'.index))
       /\ (/\ crate = "rodio"
           /\ PastDuration(RodioSelf, Seconds(sink.elapsed))
           /\ RodioTick
           /\ current_song' # current_song)
          => /\ sink'.source = SongAt(rodio_songs', current_song')
             /\ ~PastDuration([total_duration |-> total_duration'],
                              Seconds(sink'.elapsed))
      ]_vars

\* C17: a player that has loaded nothing is Stopped; from every state
\* play_song (through play_index) yields the state Playing and the elapsed
\* time zero; restore_song yields the state Paused and the elapsed time of its
\* argument with the opened decoder sought there; and while the player is
\* Paused update() decodes nothing.
LoadSetsState ==
    /\ loaded = None => state = "Stopped"
    /\ (crate = "gonk_player" /\ ~panicked) =>
        /\ \A i \in 0..MaxQueue, ok \in BOOLEAN :
             i < Len(songs.data) =>
                LET q == PlayIndex(GonkSelf, i, ok)
                IN  /\ q.state = "Playing"
                    /\ q.elapsed = 0
                    /\ q.calls = 1
                    /\ q.loaded = Some(songs.data[i + 1])
                    /\ ok => q.symphonia = q.loaded /\ q.position = 0
        /\ \A path \in Songs, e \in 0..MaxElapsed, ok \in BOOLEAN :
             LET q == RestoreSong(GonkSelf, path, e, ok)
             IN  /\ q.state = "Paused"
                 /\ q.elapsed = e
                 /\ q.calls = 1
                 /\ q.loaded = Some(path)
                 /\ ok => /\ q.symphonia = Some(path)
                          /\ q.position = DecoderSeek(path, e)
        /\ state = "Paused" =>
             \A ok \in BOOLEAN, adv \in 0..1, full \in BOOLEAN, eof \in BOOLEAN :
                LET q == PlayerUpdate(GonkSelf, ok, adv, full, eof)
                IN  /\ q.state = state
                    /\ q.symphonia = symphonia
                    /\ q.position = position
                    /\ q.elapsed = elapsed

\* C17 witness: a player restored to a saved song at a saved time, Paused,
\* with its decoder at that time, where update() leaves the decoder alone.
RestoredPausedWitness ==
    /\ state = "Paused"
    /\ symphonia = Some("B")
    /\ elapsed = 1
    /\ position = 1
    /\ ENABLED (GonkUpdate /\ UNCHANGED <<state, position>>)

\* C18: a load whose decoder cannot be opened (Symphonia::new returns Err)
\* takes the player to Stopped and leaves no decoder installed: the player is
\* not left Playing or Paused on the decoder loaded before.
FailedLoadStops ==
    [][/\ \A i \in 0..MaxQueue :
            (/\ i < Len(songs.data)
             /\ GonkPlayIndexAt(i, FALSE))
            => state' = "Stopped" /\ symphonia' = None
       /\ \A path \in Songs, e \in 0..MaxElapsed :
            GonkRestoreSongOf(path, e, FALSE)
            => state' = "Stopped" /\ symphonia' = None
      ]_vars

\* C19: a forward seek of 10 s that would pass the end of the track seeks to
\* exactly the duration, so that the next update() finds the track finished
\* and advances; a backward seek of 10 s from less than 10 s seeks to 0.
SeekIsClamped ==
    [][/\ (/\ crate = "gonk_player"
           /\ symphonia # None
           /\ Seconds(elapsed) + 10 > SongSeconds(Get(symphonia))
           /\ GonkSeekForward)
          => /\ Seconds(position') = SongSeconds(Get(symphonia))
             /\ AtEnd([symphonia |-> symphonia', position |-> position'])
       /\ (/\ crate = "gonk_player"
           /\ symphonia # None
           /\ Seconds(elapsed) < 10
           /\ GonkSeekBackward)
          => position' = 0
       /\ (/\ crate = "rodio"
           /\ sink.source # None
           /\ total_duration # None
           /\ Seconds(sink.elapsed) + 10 > Get(total_duration)
           /\ RodioSeekFw)
          => /\ Seconds(sink'.elapsed) = Get(total_duration)
             /\ PastDuration(RodioSelf, Seconds(sink'.elapsed))
       /\ (/\ crate = "rodio"
           /\ sink.source # None
           /\ Seconds(sink.elapsed) < 10
           /\ RodioSeekBw)
          => sink'.elapsed = 0
      ]_vars

\* C20: from every starting volume in 0..100, under every sequence of
\* volume_up / volume_down calls, no call overflows, the volume stays in
\* 0..100, volume_down within 5 of 0 yields 0, volume_up within 5 of 100 yields
\* 100, and every other call changes the volume by exactly 5.
VolumeSaturates ==
    /\ [](/\ ~panicked
          /\ Volume(volume) \in 0..100
          /\ rodio_volume \in 0..100)
    /\ [][/\ GonkVolumeUp =>
               Volume(volume') =
                   IF Volume(volume) >= 95 THEN 100 ELSE Volume(volume) + 5
          /\ GonkVolumeDown =>
               Volume(volume') =
                   IF Volume(volume) <= 5 THEN 0 ELSE Volume(volume) - 5
          /\ RodioVolumeUpCall =>
               rodio_volume' = IF rodio_volume >= 95 THEN 100 ELSE rodio_volume + 5
          /\ RodioVolumeDownCall =>
               rodio_volume' = IF rodio_volume <= 5 THEN 0 ELSE rodio_volume - 5
         ]_vars

-----------------------------------------------------------------------------
\* Properties of the sample-rate converter.

\* The input fed is N >= 2 complete stereo frames and the rates differ.
Resampling ==
    /\ converter.from # converter.to
    /\ Len(fed) >= 4
    /\ Len(fed) % 2 = 0

\* C21: with rates f # t and N >= 2 stereo input frames, when next() returns
\* None it has returned exactly floor(N * t / f) frames, that is
\* 2 * floor(N * t / f) samples.
ConvertedFrameCount ==
    (Resampling /\ ended) =>
        Len(returned) = 2 * (((Len(fed) \div 2) * converter.to) \div converter.from)

\* C22: with rates f # t and an input of at least two complete stereo frames,
\* no next() call panics while the converter drains its frames, and once a
\* call has returned None every later call returns None.
DrainsThenStops ==
    /\ Resampling => ~panicked
    /\ [][/\ Resampling' => ~panicked'
          /\ (Resampling /\ ended /\ ConverterNextCall)
             => (returned' = returned /\ ~panicked')
         ]_vars

\* C23: with equal rates the samples returned so far followed by the samples
\* still in the input are the input fed: new and update consume nothing, and
\* next() hands the input on sample by sample, whatever its length.
PassThrough ==
    converter.from = converter.to =>
        /\ ~panicked
        /\ returned \o converter.input = fed
        /\ ended => returned = fed

\* C23 witness: an input of three samples (odd length) passed through to its
\* end at equal rates.
PassThroughWitness ==
    /\ converter.from = converter.to
    /\ ~updated
    /\ fed = Stream(0, 3)
    /\ returned = fed
    /\ ended

\* C24: after update(input), whatever the converter was doing, the samples
\* returned are those a converter newly built with the same rates on that
\* input returns, and it ends where that one ends.
UpdateRestarts ==
    (updated /\ ~panicked) =>
        LET fresh == ConverterNew(fed, converter.from, converter.to)
        IN  /\ returned = Outputs(fresh, Len(returned))
            /\ ended => Len(Outputs(fresh, Len(returned) + 1)) = Len(returned)

-----------------------------------------------------------------------------
\* Properties of the library database.

\* C25: is_busy() is true when add_dirs returns, and whenever it is true it
\* becomes false again, in every execution: also when an entry of a directory
\* cannot be read, when the tags of a file cannot be read and when the insert
\* fails.
BusyFlipsBack ==
    /\ [][\A dirs \in RootLists : AddDirsOf(dirs) => busy']_vars
    /\ [](busy => <>(~busy))

\* The audio files under root whose tags can be read.
AudioUnder(root) ==
    {FileList[i].path : i \in {k \in 1..Len(FileList) :
        /\ root \in FileList[k].under
        /\ IsAudio(FileList[k])
        /\ TagRead(FileList[k]) # None}}

\* Every thread add_dirs has spawned has returned.
AllReturned ==
    \A i \in 1..Len(workers) : workers[i].status \in {"returned", "none"}

\* C26: once sync_database(declared roots), called on a database at rest, has
\* returned and its thread has completed, every audio file under every
\* declared root that was not yet present is in the library, whatever the
\* order of the roots and also when an earlier root holds no audio file, and
\* no song of a root that is not declared remains.
SyncFollowsDeclared ==
    (declared # None /\ AllReturned) =>
        /\ \A root \in Members(workers[Len(workers)].given) :
              AudioUnder(root) \subseteq Paths(song_table)
        /\ \A i \in 1..Len(song_table) : song_table[i].parent \in Members(Get(declared))

\* No two songs share a path, every song is an audio file under the root it
\* was found under, and every audio file of a root scanned is in the library.
LibraryIsExact ==
    /\ \A i, j \in 1..Len(song_table) :
          i # j => song_table[i].path # song_table[j].path
    /\ \A i \in 1..Len(song_table) :
          song_table[i].path \in AudioUnder(song_table[i].parent)
    /\ \A root \in scanned : AudioUnder(root) \subseteq Paths(song_table)

\* C27: after add_dirs([R]) and the completion of its thread the library holds
\* each audio file under R exactly once and no other file of R; scanning R
\* again, or scanning a root that holds files already in the library, leaves
\* those songs as they are; no two songs ever share a path.
ScanIsIdempotent ==
    /\ LibraryIsExact
    /\ \A root \in Roots :
          AudioUnder(root) \subseteq Paths(song_table)
              => InsertOrIgnore(song_table, Walk(root), root) = song_table

\* C27 witness: R1 has been scanned, then R1/sub, whose file is under R1 too,
\* and the library holds the three audio files of R1, each once.
RescanWitness ==
    /\ Len(workers) = 2
    /\ workers[1].given = <<"R1">> /\ workers[1].status = "returned"
    /\ workers[2].given = <<"R1/sub">> /\ workers[2].status = "returned"
    /\ Len(song_table) = 3
    /\ Paths(song_table) = {"R1/x.flac", "R1/y.mp3", "R1/sub/w.ogg"}

\* The four strings of args fit the text of a record.
FitsText ==
    Len(args.name) + Len(args.album) + Len(args.artist) + Len(args.path) <= TEXT_LEN

\* What was read back is the record made, its accessors return the strings
\* of args and its numbers are those of args.
ReadBackIsArgs ==
    read_back # None =>
        /\ Get(read_back) = Get(made)
        /\ NameOf(Get(read_back).text) = Some(args.name)
        /\ AlbumOf(Get(read_back).text) = Some(args.album)
        /\ ArtistOf(Get(read_back).text) = Some(args.artist)
        /\ PathOf(Get(read_back).text) = Some(args.path)
        /\ Get(read_back).number = args.number
        /\ Get(read_back).disc = args.disc

\* C29: for a name, an album, an artist and a path without NUL bytes whose
\* lengths add up to at most TEXT_LEN, Song::new does not panic, Song::from of
\* into_bytes is the record made, the accessors return the four strings, empty
\* ones too, and the track and disc numbers are kept.
RecordKeepsFields ==
    FitsText => (~panicked /\ ReadBackIsArgs)

\* C28: RawPlaylist::from of the bytes save() wrote has the name and the songs
\* saved, in their order and byte for byte, and those bytes are the length of
\* the name as a little-endian u16, the name, one zero byte, then the records
\* of SONG_LEN bytes.
PlaylistRoundTrip ==
    /\ file # None =>
          Get(file) = U16LeBytes(Len(playlist.name)) \o playlist.name \o <<0>>
                      \o Records(playlist.songs)
    /\ opened # None =>
          /\ ~Get(opened).panic
          /\ Get(opened).name = playlist.name
          /\ Get(opened).songs = playlist.songs

\* The names of the playlists of the view.
ListNames == {ui.lists.data[k].name : k \in 1..Len(ui.lists.data)}

\* No playlist of the view and no playlist file is without songs.
NoEmptyPlaylist ==
    /\ \A k \in 1..Len(ui.lists.data) : ui.lists.data[k].songs.data # <<>>
    /\ \A n \in DOMAIN disk : disk[n] # <<>>

\* C30: whatever is done with the popup, delete_song and delete_playlist, no
\* playlist of the view and no playlist file is without songs; when delete_song
\* has removed the last song of a playlist, its file is gone, it is no longer
\* in the list and the view is in Playlist mode.
EmptyPlaylistIsDeleted ==
    /\ NoEmptyPlaylist
    /\ emptied # None =>
          /\ Get(emptied) \notin DOMAIN disk
          /\ Get(emptied) \notin ListNames
          /\ ui.mode = "Playlist"

\* C30 witness: delete_song has just removed the last song of a playlist, and
\* another playlist, of two songs, remains.
LastSongDeleted ==
    /\ emptied # None
    /\ ~panicked
    /\ Len(ui.lists.data) = 1
    /\ Len(ui.lists.data[1].songs.data) = 2

\* The playlists of w with the songs of each.
Listed(w) == [k \in 1..Len(w.ui.lists.data) |->
                 <<w.ui.lists.data[k].name, w.ui.lists.data[k].songs.data>>]

\* C40: a delete without shift opens the confirmation and removes nothing;
\* an on_enter while the confirmation is open closes it, with Yes and with No,
\* with and without a playlist or a song selected; no other call than a
\* delete with shift or an on_enter with Yes removes a playlist or a song.
ConfirmationCloses ==
    /\ ui.mode \in {"Playlist", "Song"} =>
          /\ Delete(World, FALSE).ui.delete
          /\ Listed(Delete(World, FALSE)) = Listed(World)
          /\ Delete(World, FALSE).disk = disk
    /\ ui.delete => ~OnEnter(World).ui.delete
    /\ (ui.delete /\ ~ui.yes) => Listed(OnEnter(World)) = Listed(World)
    /\ \A w \in {Up(World), Down(World), Left(World), Right(World)} :
          Listed(w) = Listed(World) /\ w.disk = disk

\* A thread of add_dirs is still running.
Scanning == \E i \in 1..Len(workers) : workers[i].status = "running"

\* C36: is_busy() is true as long as a thread of add_dirs is running, also
\* when a second add_dirs was called before the thread of the first ended.
BusyWhileScanning == Scanning => busy

\* C37: after sync_database(declared), also when it ran while a thread of an
\* earlier add_dirs was at a root that is not declared, once no thread is
\* running any more no song has a parent outside declared: none has one of
\* the roots that sync_database found with a thread and not among declared.
SyncOutlastsScans ==
    ~Scanning =>
        \A i \in 1..Len(song_table) : song_table[i].parent \notin undeclared

\* C35: the assert of push_back never fails: whenever push_back finds the
\* buffer full, read differs from write, for every argument of Rb::new, 0
\* included.
AssertNeverFails == ppc # "panic"

\* C34: when clear, play_song or restore_song is executed while the producer
\* is blocked in push_back on a full ring buffer, the ring buffer is flushed
\* and the producer is unblocked, though nothing pops.
CancelUnblocksProducer ==
    [][(ppc = "waiting" /\ (GonkClear \/ GonkPlayIndex \/ GonkRestoreSong))
           => (ppc' # "waiting" /\ read' = write')]_vars

\* The length of the run of zeros of seq that ends before position j.
RECURSIVE ZerosBefore(_, _)
ZerosBefore(seq, j) ==
    IF j = 1 \/ seq[j - 1] # 0 THEN 0 ELSE 1 + ZerosBefore(seq, j - 1)

\* The inner samples among seq, in the order of seq.
InnerOf(seq) == SelectSeq(seq, LAMBDA x : x # 0)

\* C39: while paused, next() returns zero and takes nothing from the inner
\* source; however set_paused and next() are interleaved, the zeros come in
\* runs of a multiple of the channel count (the run under way counted with
\* what is left of it), and the inner samples come out once each, in order.
SilenceInWholeFrames ==
    pausable # None =>
        LET p == Get(pausable)
            ch == p.input.channels
            r == PausableNext(p)
            all == InnerOf(output) \o p.input.samples
        IN  /\ p.paused_channels # None =>
                   (r.result = Some(0) /\ r.p.input = p.input)
            /\ all = [i \in 1..Len(all) |-> i]
            /\ \A j \in 1..Len(output) :
                   output[j] # 0 => ZerosBefore(output, j) % ch = 0
            /\ (ZerosBefore(output, Len(output) + 1)
                    + p.remaining_paused_samples) % ch = 0

\* A stereo source was paused after its first sample and resumed later: two
\* zeros stand between its first two samples.
ResumedMidFrame ==
    /\ pausable # None
    /\ Get(pausable).input.channels = 2
    /\ Get(pausable).paused_channels = None
    /\ output = <<1, 0, 0, 2>>

\* The gain update() is to use for a track that was loaded with gain g.
OwnGain(g) == IF g # 0 THEN g ELSE Half

\* C38: after play_song(path, g) or restore_song(path, g, e) the multiplier
\* update() hands fill_buffer is volume * g when g is not 0 and volume * 0.5
\* when g is 0, whatever was loaded before.
GainIsTheTracks ==
    (track_gain # None /\ applied # None) =>
        Get(applied) = Multiplier(volume, OwnGain(Get(track_gain)))

-----------------------------------------------------------------------------
\* Properties of the search.

\* update_search() is about to search: the query is not the one it searched
\* last.
Searches == search # None /\ Get(search).query # Get(search).prev_query

\* C31: whenever update_search searches with an empty query, the results are
\* at most 40 entries and none of the cache is among them twice, also when
\* the name of an entry is empty.
SeededOnce ==
    (Searches /\ Get(search).query = <<>>) =>
        LET r == UpdateSearch(Get(search)).results.data
        IN  /\ Len(r) <= Seeded
            /\ \A i, j \in 1..Len(r) : i # j => r[i] # r[j]

\* Artist before Album before Song
KindRank(x) == CASE x.kind = "Artist" -> 0 [] x.kind = "Album" -> 1 [] x.kind = "Song" -> 2

\* x may stand before y in the results for q: by similarity, then by kind,
\* then by name.
MayPrecede(x, y, q) ==
    LET ax == JaroWinkler(q, ToLowercase(x.name))
        ay == JaroWinkler(q, ToLowercase(y.name))
    IN  \/ Exceeds(ax, ay)
        \/ /\ ~Exceeds(ay, ax)
           /\ \/ KindRank(x) < KindRank(y)
              \/ KindRank(x) = KindRank(y) /\ StrLeq(x.name, y.name)

\* C32: for a query that is not empty the results are exactly the entries of
\* the cache whose similarity to the query is above 0.75, by similarity
\* descending, entries of one similarity by kind (Artist, Album, Song) and
\* then by name.
RankedByKind ==
    (Searches /\ Get(search).query # <<>>) =>
        LET s == Get(search)
            q == ToLowercase(s.query)
            r == UpdateSearch(s).results.data
            hit == {i \in 1..Len(s.cache) :
                       Exceeds(JaroWinkler(q, ToLowercase(s.cache[i].name)),
                               Threshold)}
        IN  /\ Members(r) = {s.cache[i] : i \in hit}
            /\ Len(r) = Cardinality(hit)
            /\ \A i, j \in 1..Len(r) : i < j => MayPrecede(r[i], r[j], q)

\* C33: after update_engine() and update_search() on a library update, the
\* query being what it was, the results are those of the query over the new
\* cache; so for the empty query of Search::new.
RefreshReruns ==
    search # None =>
        \A t \in Libraries :
            LET s == NeedsUpdate(Get(search), t)
            IN  s.results.data = Found(s.cache, s.query)

====
